---- MODULE Spec2Model ----
(***************************************************************************)
(* Session lifecycle of go-auth/sessions over a Redis key-value store and  *)
(* a MySQL users / session_summaries schema: Create, Save, RefreshToken,   *)
(* Delete, FindAndDeleteAllByToken, DeleteAllByUserHash,                   *)
(* DeleteUserSessions.  Every operation is a pure operator from a world    *)
(* (redis, users, audit) to a result; one action per operation applies it. *)
(* A store step named by the `fault` input of a call fails when the call   *)
(* reaches it: the step has no effect and yields a store error.            *)
(***************************************************************************)
EXTENDS Integers, Sequences, FiniteSets, TLC

VARIABLES redis, users, audit, now, last, run, faults, fails,
          secretCache, sessionsRedisClient, putObjects, response, procs

\* the package-level variables of the Lambda, the PutObject requests it has issued and
\* the response of its last invocation
handlerVars == <<secretCache, sessionsRedisClient, putObjects, response>>

\* procs: the calls in flight when callers run at the same time, each with its
\* position and its local variables; seen is the number of writes of the index key
\* before the call read it, order the place of the call's own write among them
vars == <<redis, users, audit, now, last, run, faults, fails, handlerVars, procs>>

(***************************** bounds **************************************)
\* number of clock steps the model takes
MaxTicks == 2
\* number of distinct random strings createSessionToken can draw
NumNonces == 1
\* cap on users.login_count (successful logins per identity)
MaxLogins == 2
\* number of store steps that fail in one behaviour
MaxFaults == 1
\* the length of the token lists handed to DeleteMultiple
MaxList == 2
\* number of PutObject requests the Lambda issues in one behaviour
MaxPuts == 2
\* number of callers that run at the same time, one call each
NumProcs == 2

(************************* program constants *******************************)
sessionTTL == 960
userDeleted == 2
userLocked == 4
userLockedLogin == 16
maxLoginAttempts == 6
clinicianRoleID == 4
keyActiveClinicianList == "active_clinician_list"

\* seconds the clock advances in one step: half a session's life
TickSeconds == sessionTTL \div 2

(****************************** errors *************************************)
Nil == "nil"
PasswordMismatch == "PasswordMismatch"
UserNotFound == "UserNotFound"
UserLockedError == "UserLockedError"
NonUniqueToken == "NonUniqueToken"
RedisNil == "redis.Nil"
StoreError == "StoreError"

(************************ the relational data ******************************)
\* users rows: the columns the core never writes
\* alice can log in; bob logged in at time 0 and was then locked by an administrator;
\* carol is deleted and login-locked
UserIDs == 1..3
Username(u) == CASE u = 1 -> "alice" [] u = 2 -> "bob" [] OTHER -> "carol"
SystemCodeOf(u) == "bdh"
CreatedOf(u) == 1000 + u
InitStatus(u) == CASE u = 1 -> 8
                   [] u = 2 -> userLocked
                   [] OTHER -> userDeleted + userLockedLogin
\* user_roles_xref joined with roles: (role_id, name) rows per user
RoleRows(u) == CASE u = 1 -> {<<1, "admin">>, <<clinicianRoleID, "clinician">>}
                 [] u = 2 -> {<<2, "patient">>}
                 [] OTHER -> {}
RoleIDs == {1, 2, clinicianRoleID}

GoodPassword == "Str0ng!Pass"
BadPassword == "wrong"
Passwords == {GoodPassword, BadPassword}
\* (username, system code) pairs presented to Create
Logins == {<<Username(u), SystemCodeOf(u)>> : u \in UserIDs} \cup {<<"alice", "other">>}
Nonces == 1..NumNonces
Times == {i * TickSeconds : i \in 0..MaxTicks}

(****************************** bit masks **********************************)
\* status & bit > 0, for a one-bit mask
BitSet(status, bit) == (status \div bit) % 2 = 1
\* status | bit
BitOr(status, bit) == IF BitSet(status, bit) THEN status ELSE status + bit

(************************** password.Hash **********************************)
\* sha512-crypt of fmt.Sprint(input) salted with the created timestamp, the
\* salt prefix stripped: a deterministic injective function of (key, created)
Hash(key, created) == "H(" \o key \o "," \o ToString(created) \o ")"

SecureCompare(given, actual) == given = actual

StoredPassword(u) == Hash(GoodPassword, CreatedOf(u))

getUserHashToken(session) == Hash(ToString(session.UserID), session.UserCreated)

UserHash(u) == Hash(ToString(u), CreatedOf(u))

(****************************** redis **************************************)
NoKey == [kind |-> "nil"]

Get(rd, key) == IF key \in DOMAIN rd THEN rd[key] ELSE NoKey

\* mutant: the existence check never sees the key
ExistsNever(rd, key) == 0

Exists(rd, key) == IF key \in DOMAIN rd THEN 1 ELSE 0

\* SET key value EX ttl
SetKey(rd, key, value, ttl, t) ==
  [k \in DOMAIN rd \cup {key} |-> IF k = key THEN [value EXCEPT !.exp = t + ttl] ELSE rd[k]]

Del(rd, key) == [k \in DOMAIN rd \ {key} |-> rd[k]]

\* the store's own expiry: a key lives for its TTL and is gone at exp
Expire(rd, t) == [k \in {x \in DOMAIN rd : rd[x].kind = "cache" \/ rd[x].exp > t} |-> rd[k]]

(************************ redis.Client.GetSession **************************)
ZeroSession == [UserID |-> 0, Roles |-> <<>>, Created |-> 0, Timeout |-> 0, Token |-> ""]

\* json.Unmarshal into redis.Session keeps user_id, roles, created, timeout and
\* Token; a value with none of these fields decodes to the zero Session
DecodeSession(v) ==
  IF v.kind = "session"
  THEN [UserID |-> v.user_id, Roles |-> v.roles, Created |-> v.created,
        Timeout |-> v.timeout, Token |-> v.Token]
  ELSE ZeroSession

GetSession(rd, token, failed) ==
  IF failed THEN [s |-> ZeroSession, err |-> StoreError]
  ELSE IF token \notin DOMAIN rd THEN [s |-> ZeroSession, err |-> Nil]
  ELSE [s |-> [DecodeSession(rd[token]) EXCEPT !.Token = token], err |-> Nil]

(************************** stored JSON values *****************************)
\* json.Marshal(*SessionData): the embedded redis.Session and the two extra fields
MarshalSession(d) ==
  [kind |-> "session", user_id |-> d.UserID, roles |-> d.Roles, created |-> d.Created,
   timeout |-> d.Timeout, Token |-> d.Token, user_status |-> d.Status,
   UserCreated |-> d.UserCreated, exp |-> 0]

\* mutant: the stored value is decoded into redis.Session, which has no
\* user_status and no UserCreated
UnmarshalSessionDataAsSession(v) ==
  IF v.kind # "session"
  THEN [UserID |-> 0, Roles |-> <<>>, Created |-> 0, Timeout |-> 0, Token |-> "",
        Status |-> 0, UserCreated |-> 0]
  ELSE
  [UserID |-> v.user_id, Roles |-> v.roles, Created |-> v.created, Timeout |-> v.timeout,
   Token |-> v.Token, Status |-> 0, UserCreated |-> 0]

\* json.Unmarshal into SessionData
UnmarshalSessionData(v) ==
  IF v.kind # "session"
  THEN [UserID |-> 0, Roles |-> <<>>, Created |-> 0, Timeout |-> 0, Token |-> "",
        Status |-> 0, UserCreated |-> 0]
  ELSE
  [UserID |-> v.user_id, Roles |-> v.roles, Created |-> v.created, Timeout |-> v.timeout,
   Token |-> v.Token, Status |-> v.user_status, UserCreated |-> v.UserCreated]

\* json.Marshal(UserSessions)
MarshalUserSessions(us) ==
  [kind |-> "index", UserIDHash |-> us.UserIDHash,
   Sessions |-> [i \in DOMAIN us.Sessions |->
                   [Token |-> us.Sessions[i].Token, roles_list |-> us.Sessions[i].Roles]],
   exp |-> 0]

EmptyUserSessions == [UserIDHash |-> "", Sessions |-> <<>>]

\* json.Unmarshal into UserSessions
UnmarshalUserSessions(v) ==
  IF v.kind = "index"
  THEN [UserIDHash |-> v.UserIDHash,
        Sessions |-> [i \in DOMAIN v.Sessions |->
                        [Token |-> v.Sessions[i].Token, Roles |-> v.Sessions[i].roles_list]]]
  ELSE EmptyUserSessions

(*************************** users table ***********************************)
\* SELECT user_id, status, password, created FROM users WHERE username = ? AND system_code = ?
GetUserForAuth(us, login, failed) ==
  LET rows == {u \in DOMAIN us : Username(u) = login[1] /\ SystemCodeOf(u) = login[2]}
  IN IF failed THEN [user |-> [UserID |-> 0], err |-> StoreError]
     ELSE IF rows = {} THEN [user |-> [UserID |-> 0], err |-> UserNotFound]
     ELSE LET u == CHOOSE x \in rows : TRUE
          IN [user |-> [UserID |-> u, Status |-> us[u].status,
                        StoredPassword |-> StoredPassword(u), Created |-> CreatedOf(u)],
              err |-> Nil]

\* mutant: the lock bits are tested before the deleted bit
ValidateUserStatusLockFirst(user) ==
  IF BitSet(user.Status, userLocked) \/ BitSet(user.Status, userLockedLogin)
  THEN UserLockedError
  ELSE IF BitSet(user.Status, userDeleted) THEN UserNotFound ELSE Nil

ValidateUserStatus(user) ==
  IF BitSet(user.Status, userDeleted) THEN UserNotFound
  ELSE IF BitSet(user.Status, userLocked) \/ BitSet(user.Status, userLockedLogin)
       THEN UserLockedError
       ELSE Nil

\* mutant: the status is assigned the lock bit, not OR-ed with it
RecordFailedLoginAssignsStatus(row) ==
  LET n == row.failed_logins + 1
  IN [row EXCEPT !.failed_logins = n,
                 !.status = IF n >= maxLoginAttempts THEN userLockedLogin ELSE row.status]

\* mutant: the IF reads the counter as it was before the statement
RecordFailedLoginOldCounter(row) ==
  [row EXCEPT !.failed_logins = row.failed_logins + 1,
              !.status = IF row.failed_logins >= maxLoginAttempts
                         THEN BitOr(row.status, userLockedLogin) ELSE row.status]

\* UPDATE users SET failed_logins = failed_logins + 1,
\*   status = status | IF(failed_logins >= ?, ?, 0): MySQL evaluates the assignments
\* of a single-table UPDATE left to right, so the IF reads the incremented counter
RecordFailedLogin(row) ==
  LET n == row.failed_logins + 1
  IN [row EXCEPT !.failed_logins = n,
                 !.status = IF n >= maxLoginAttempts THEN BitOr(row.status, userLockedLogin)
                            ELSE row.status]

\* mutant: the counter of failed logins is left as it is
RecordLoginKeepsCounter(row, t) ==
  [row EXCEPT !.last_login = t, !.login_count = row.login_count + 1]

\* UPDATE users SET last_login = UNIX_TIMESTAMP(), login_count = login_count + 1, failed_logins = 0
RecordLogin(row, t) ==
  [row EXCEPT !.last_login = t, !.login_count = row.login_count + 1, !.failed_logins = 0]

\* mutant: a failed login is recorded as a successful one
updateUserAsSuccess(us, userID, success, t, failed) ==
  IF failed THEN [users |-> us, err |-> StoreError]
  ELSE IF userID \notin DOMAIN us THEN [users |-> us, err |-> Nil]
  ELSE [users |-> [us EXCEPT ![userID] = RecordLogin(us[userID], t)], err |-> Nil]

updateUser(us, userID, success, t, failed) ==
  IF failed THEN [users |-> us, err |-> StoreError]
  ELSE IF userID \notin DOMAIN us THEN [users |-> us, err |-> Nil]
  ELSE [users |-> [us EXCEPT ![userID] = IF success THEN RecordLogin(us[userID], t)
                                         ELSE RecordFailedLogin(us[userID])],
        err |-> Nil]

\* the role join, keyed by strconv.Itoa(role_id)
getUserRoles(userID, failed) ==
  IF failed THEN [roles |-> <<>>, err |-> StoreError]
  ELSE [roles |-> [k \in {ToString(r[1]) : r \in RoleRows(userID)} |->
                     (CHOOSE r \in RoleRows(userID) : ToString(r[1]) = k)[2]],
        err |-> Nil]

\* strconv.Atoi on a role key
Atoi(s) == CHOOSE n \in RoleIDs : ToString(n) = s

(*************************** session_summaries *****************************)
NullTime == 0 - 1

\* INSERT INTO session_summaries (token, user_id, started, last_active, created)
CreateSessionSummary(au, token, data, t, failed) ==
  IF failed THEN [audit |-> au, err |-> StoreError]
  ELSE [audit |-> au \cup {[token |-> token, user_id |-> data.UserID, started |-> data.Created,
                            last_active |-> data.Created, created |-> t,
                            ended |-> NullTime, hard_logout |-> FALSE]},
        err |-> Nil]

\* mutant: the UPDATE has no WHERE clause
CloseSessionSummaryOfAllRows(au, token, t, failed) ==
  IF failed THEN [audit |-> au, err |-> StoreError]
  ELSE [audit |-> {[r EXCEPT !.ended = t, !.hard_logout = TRUE] : r \in au}, err |-> Nil]

\* UPDATE session_summaries SET ended = UNIX_TIMESTAMP(), hard_logout = 1 WHERE token = ?
CloseSessionSummary(au, token, t, failed) ==
  IF failed THEN [audit |-> au, err |-> StoreError]
  ELSE [audit |-> {IF r.token = token THEN [r EXCEPT !.ended = t, !.hard_logout = TRUE] ELSE r
                   : r \in au},
        err |-> Nil]

(************************ token and session data ***************************)
\* mutant: the session is built without the roles that were loaded
newSessionDataNoRoles(user, rolesMap, t) ==
  [UserID |-> user.UserID, Roles |-> <<>>, Created |-> t, Timeout |-> sessionTTL,
   Token |-> "", Status |-> user.Status, UserCreated |-> user.Created]

newSessionData(user, rolesMap, t) ==
  [UserID |-> user.UserID, Roles |-> rolesMap, Created |-> t, Timeout |-> sessionTTL,
   Token |-> "", Status |-> user.Status, UserCreated |-> user.Created]

RolesClaim(roles) ==
  LET f(id) == IF ToString(id) \in DOMAIN roles
               THEN ToString(id) \o "=" \o roles[ToString(id)] \o ";" ELSE ""
  IN f(1) \o f(2) \o f(clinicianRoleID)

\* the signed claims user_id, roles, iat and rs (the random string)
createSessionToken(session, nonce) ==
  "jwt." \o ToString(session.UserID) \o "." \o RolesClaim(session.Roles) \o "."
         \o ToString(session.Created) \o "." \o ToString(nonce)

CreateTokenAndSessionData(user, t, nonce, failed) ==
  LET r == getUserRoles(user.UserID, failed)
  IN IF r.err # Nil THEN [token |-> "", session |-> <<>>, err |-> r.err]
     ELSE LET session == newSessionData(user, r.roles, t)
          IN [token |-> createSessionToken(session, nonce), session |-> session, err |-> Nil]

(******************************** Save *************************************)
\* the role ids of the session, in the map's iteration order (kept as a set)
RolesList(session) == {Atoi(k) : k \in DOMAIN session.Roles}

\* mutant: a failed index step takes the session record back out
SaveUndoesSessionWrite(rd, t, token, session, fault) ==
  IF Exists(rd, token) = 1 /\ fault # "Exists" THEN [redis |-> rd, err |-> NonUniqueToken]
  ELSE IF fault \in {"Exists", "SetSession", "GetIndex", "SetIndex"}
       THEN [redis |-> rd, err |-> StoreError]
  ELSE
  LET rd1 == SetKey(rd, token, MarshalSession(session), sessionTTL, t)
      userHashToken == getUserHashToken(session)
      userSessions == IF userHashToken \notin DOMAIN rd1
                      THEN [UserIDHash |-> userHashToken, Sessions |-> <<>>]
                      ELSE UnmarshalUserSessions(rd1[userHashToken])
      userSession == [Token |-> token, Roles |-> RolesList(session)]
      updated == [userSessions EXCEPT !.Sessions = Append(userSessions.Sessions, userSession)]
  IN [redis |-> SetKey(rd1, userHashToken, MarshalUserSessions(updated), sessionTTL, t),
      err |-> Nil]

\* mutant: the new element is put at the head of the list
SavePrepends(rd, t, token, session, fault) ==
  IF Exists(rd, token) = 1 /\ fault # "Exists" THEN [redis |-> rd, err |-> NonUniqueToken]
  ELSE IF fault \in {"Exists", "SetSession"} THEN [redis |-> rd, err |-> StoreError]
  ELSE
  LET rd1 == SetKey(rd, token, MarshalSession(session), sessionTTL, t)
      userHashToken == getUserHashToken(session)
      userSessions == IF userHashToken \notin DOMAIN rd1
                      THEN [UserIDHash |-> userHashToken, Sessions |-> <<>>]
                      ELSE UnmarshalUserSessions(rd1[userHashToken])
      userSession == [Token |-> token, Roles |-> RolesList(session)]
      updated == [userSessions EXCEPT !.Sessions = <<userSession>> \o userSessions.Sessions]
  IN IF fault \in {"GetIndex", "SetIndex"} THEN [redis |-> rd1, err |-> StoreError]
     ELSE [redis |-> SetKey(rd1, userHashToken, MarshalUserSessions(updated), sessionTTL, t),
           err |-> Nil]

Save(rd, t, token, session, fault) ==
  IF Exists(rd, token) = 1 /\ fault # "Exists" THEN [redis |-> rd, err |-> NonUniqueToken]
  ELSE IF fault = "Exists" THEN [redis |-> rd, err |-> StoreError]
  ELSE IF fault = "SetSession" THEN [redis |-> rd, err |-> StoreError]
  ELSE
  LET rd1 == SetKey(rd, token, MarshalSession(session), sessionTTL, t)
      userHashToken == getUserHashToken(session)
  IN IF fault = "GetIndex" THEN [redis |-> rd1, err |-> StoreError]
     ELSE
     LET userSessions == IF userHashToken \notin DOMAIN rd1
                         THEN [UserIDHash |-> userHashToken, Sessions |-> <<>>]
                         ELSE UnmarshalUserSessions(rd1[userHashToken])
         userSession == [Token |-> token, Roles |-> RolesList(session)]
         updated == [userSessions EXCEPT !.Sessions = Append(userSessions.Sessions, userSession)]
     IN IF fault = "SetIndex" THEN [redis |-> rd1, err |-> StoreError]
        ELSE [redis |-> SetKey(rd1, userHashToken, MarshalUserSessions(updated), sessionTTL, t),
              err |-> Nil]

(******************************* Create ************************************)
Ret(w, token, err) == [w |-> w, token |-> token, err |-> err]

Create(w, t, login, password, nonce, fault) ==
  LET g == GetUserForAuth(w.users, login, fault = "GetUserForAuth")
  IN IF g.err # Nil THEN Ret(w, "", g.err)
     ELSE
     LET user == g.user
         v == ValidateUserStatus(user)
     IN IF v # Nil THEN Ret(w, "", v)
        ELSE IF ~SecureCompare(Hash(password, user.Created), user.StoredPassword)
        THEN LET up == updateUser(w.users, user.UserID, FALSE, t, fault = "updateUser")
             IN IF up.err # Nil THEN Ret(w, "", up.err)
                ELSE Ret([w EXCEPT !.users = up.users], "", PasswordMismatch)
        ELSE
        LET c == CreateTokenAndSessionData(user, t, nonce, fault = "getUserRoles")
        IN IF c.err # Nil THEN Ret(w, "", c.err)
           ELSE
           LET s == Save(w.redis, t, c.token, c.session, fault)
               w1 == [w EXCEPT !.redis = s.redis]
           IN IF s.err # Nil THEN Ret(w1, "", s.err)
              ELSE
              LET up == updateUser(w1.users, user.UserID, TRUE, t, fault = "updateUser")
                  w2 == [w1 EXCEPT !.users = up.users]
              IN IF up.err # Nil THEN Ret(w1, "", up.err)
                 ELSE
                 LET a == CreateSessionSummary(w2.audit, c.token, c.session, t,
                                               fault = "CreateSessionSummary")
                 IN IF a.err # Nil THEN Ret(w2, "", a.err)
                    ELSE Ret([w2 EXCEPT !.audit = a.audit], c.token, Nil)

(**************************** RefreshToken *********************************)
\* mutant: a missing key is treated like GetSession treats it, as an empty session
RefreshTokenOfMissing(rd, t, token, fault) ==
  IF fault = "Get" THEN [redis |-> rd, err |-> StoreError]
  ELSE
  LET existingSession == UnmarshalSessionData(Get(rd, token))
      updated == [existingSession EXCEPT !.Created = t]
  IN IF fault = "Set" THEN [redis |-> rd, err |-> Nil]
     ELSE [redis |-> SetKey(rd, token, MarshalSession(updated), sessionTTL, t), err |-> Nil]

\* a failed Set returns the err of the json.Marshal before it, which is nil
RefreshToken(rd, t, token, fault) ==
  IF fault = "Get" THEN [redis |-> rd, err |-> StoreError]
  ELSE IF token \notin DOMAIN rd THEN [redis |-> rd, err |-> RedisNil]
  ELSE
  LET existingSession == UnmarshalSessionData(rd[token])
      updated == [existingSession EXCEPT !.Created = t]
  IN IF fault = "Set" THEN [redis |-> rd, err |-> Nil]
     ELSE [redis |-> SetKey(rd, token, MarshalSession(updated), sessionTTL, t), err |-> Nil]

(*********************** FindUserSessionsByAuthToken ***********************)
\* SELECT created FROM users WHERE user_id = ? LIMIT 1; Scan fails on no row
getUserCreatedByID(us, userID, failed) ==
  IF failed THEN [created |-> 0, err |-> StoreError]
  ELSE IF userID \notin DOMAIN us THEN [created |-> 0, err |-> "sql.ErrNoRows"]
  ELSE [created |-> CreatedOf(userID), err |-> Nil]

\* mutant: the created timestamp read from the users table is not passed on
createSessionDataWithoutCreated(redisSession, userCreated) ==
  [UserID |-> redisSession.UserID, Roles |-> <<>>, Created |-> 0, Timeout |-> 0,
   Token |-> "", Status |-> 0, UserCreated |-> 0]

createSessionData(redisSession, userCreated) ==
  [UserID |-> redisSession.UserID, Roles |-> <<>>, Created |-> 0, Timeout |-> 0,
   Token |-> "", Status |-> 0, UserCreated |-> userCreated]

FindUserSessionsByAuthToken(w, token, fault) ==
  LET g == GetSession(w.redis, token, fault = "FindGetSession")
  IN IF g.err # Nil THEN [userSessions |-> EmptyUserSessions, err |-> g.err]
     ELSE IF g.s.UserID = 0 THEN [userSessions |-> EmptyUserSessions, err |-> Nil]
     ELSE
     LET c == getUserCreatedByID(w.users, g.s.UserID, fault = "getUserCreatedByID")
         userHashToken == getUserHashToken(createSessionData(g.s, c.created))
     IN IF c.err # Nil THEN [userSessions |-> EmptyUserSessions, err |-> c.err]
        ELSE IF fault = "GetIndex" THEN [userSessions |-> EmptyUserSessions, err |-> StoreError]
        ELSE IF userHashToken \notin DOMAIN w.redis
             THEN [userSessions |-> EmptyUserSessions, err |-> Nil]
        ELSE [userSessions |-> UnmarshalUserSessions(w.redis[userHashToken]), err |-> Nil]

(******************************* Delete ************************************)
Swap(sessions, i, j) ==
  [x \in DOMAIN sessions |-> IF x = i THEN sessions[j] ELSE IF x = j THEN sessions[i]
                             ELSE sessions[x]]

\* mutant: the loop finds no element to remove
RemoveLoopFindsNone(sessions, kept, i, token) == kept

\* the range loop of removeSessionFromUserSessions: `sessions` is the backing array the
\* loop reads and swaps in, `kept` the slice userSessions.Sessions is left with
RECURSIVE RemoveLoop(_, _, _, _)
RemoveLoop(sessions, kept, i, token) ==
  IF i > Len(sessions) THEN kept
  ELSE IF sessions[i].Token = token
       THEN LET swapped == Swap(sessions, i, Len(sessions))
            IN RemoveLoop(swapped, SubSeq(swapped, 1, Len(sessions) - 1), i + 1, token)
       ELSE RemoveLoop(sessions, kept, i + 1, token)

removeSessionFromUserSessions(rd, userSessions, token, t, fault) ==
  LET userHashToken == userSessions.UserIDHash
      kept == RemoveLoop(userSessions.Sessions, userSessions.Sessions, 1, token)
  IN IF Len(kept) = 0
     THEN IF fault = "DelIndex" THEN [redis |-> rd, err |-> StoreError]
          ELSE [redis |-> Del(rd, userHashToken), err |-> Nil]
     ELSE IF fault = "SetIndex" THEN [redis |-> rd, err |-> StoreError]
          ELSE [redis |-> SetKey(rd, userHashToken,
                                 MarshalUserSessions([userSessions EXCEPT !.Sessions = kept]),
                                 sessionTTL, t),
                err |-> Nil]

RetErr(w, err) == [w |-> w, err |-> err, n |-> 0]

\* mutant: no early return for a token without a session record
DeleteUnguarded(w, t, token, fault) ==
  LET g == GetSession(w.redis, token, fault = "GetSession")
  IN IF g.err # Nil THEN RetErr(w, g.err)
     ELSE
     LET f == FindUserSessionsByAuthToken(w, token, fault)
     IN IF f.err # Nil THEN RetErr(w, f.err)
        ELSE
        LET rd1 == IF Len(f.userSessions.Sessions) # 0
                   THEN removeSessionFromUserSessions(w.redis, f.userSessions, token, t, fault).redis
                   ELSE w.redis
            w1 == [w EXCEPT !.redis = rd1]
        IN IF fault = "DelSession" THEN RetErr(w1, StoreError)
           ELSE
           LET w2 == [w1 EXCEPT !.redis = Del(rd1, token)]
               c == CloseSessionSummary(w2.audit, g.s.Token, t, fault = "CloseSessionSummary")
           IN IF c.err # Nil THEN RetErr(w2, c.err)
              ELSE RetErr([w2 EXCEPT !.audit = c.audit], Nil)

\* the error of removeSessionFromUserSessions is assigned and then overwritten by Del's
Delete(w, t, token, fault) ==
  LET g == GetSession(w.redis, token, fault = "GetSession")
  IN IF g.err # Nil THEN RetErr(w, g.err)
     ELSE IF g.s.UserID = 0 THEN RetErr(w, Nil)
     ELSE
     LET f == FindUserSessionsByAuthToken(w, token, fault)
     IN IF f.err # Nil THEN RetErr(w, f.err)
        ELSE
        LET rd1 == IF Len(f.userSessions.Sessions) # 0
                   THEN removeSessionFromUserSessions(w.redis, f.userSessions, token, t, fault).redis
                   ELSE w.redis
            w1 == [w EXCEPT !.redis = rd1]
        IN IF fault = "DelSession" THEN RetErr(w1, StoreError)
           ELSE
           LET w2 == [w1 EXCEPT !.redis = Del(rd1, token)]
               c == CloseSessionSummary(w2.audit, g.s.Token, t, fault = "CloseSessionSummary")
           IN IF c.err # Nil THEN RetErr(w2, c.err)
              ELSE RetErr([w2 EXCEPT !.audit = c.audit], Nil)

(***************************** DeleteMultiple ******************************)
\* mutant: an error of Delete is skipped and the loop goes on to the next token
RECURSIVE DeleteMultipleLoopSkipsErrors(_, _, _, _, _, _)
DeleteMultipleLoopSkipsErrors(w, t, tokens, i, fault, k) ==
  IF i > Len(tokens) THEN RetErr(w, Nil)
  ELSE LET r == Delete(w, t, tokens[i], IF i = k THEN fault ELSE "none")
       IN DeleteMultipleLoopSkipsErrors(r.w, t, tokens, i + 1, fault, k)

\* the range loop over tokens from position i; the step named by fault fails in the
\* k-th call of Delete
RECURSIVE DeleteMultipleLoop(_, _, _, _, _, _)
DeleteMultipleLoop(w, t, tokens, i, fault, k) ==
  IF i > Len(tokens) THEN RetErr(w, Nil)
  ELSE LET r == Delete(w, t, tokens[i], IF i = k THEN fault ELSE "none")
       IN IF r.err # Nil THEN r
          ELSE DeleteMultipleLoop(r.w, t, tokens, i + 1, fault, k)

DeleteMultiple(w, t, tokens, fault, k) == DeleteMultipleLoop(w, t, tokens, 1, fault, k)

(************************** DeleteUserSessions *****************************)
\* mutant: the entry whose step fails is skipped and the loop goes on
RECURSIVE BulkLoopSkipsFailedEntry(_, _, _, _, _, _)
BulkLoopSkipsFailedEntry(w, t, sessions, i, fault, k) ==
  IF i > Len(sessions) THEN [w |-> w, err |-> Nil, n |-> Len(sessions)]
  ELSE IF i = k THEN BulkLoopSkipsFailedEntry(w, t, sessions, i + 1, fault, k)
  ELSE
  LET session == sessions[i]
      w1 == [w EXCEPT !.redis = Del(w.redis, session.Token)]
      w2 == IF clinicianRoleID \in session.Roles
            THEN [w1 EXCEPT !.redis = Del(w1.redis, keyActiveClinicianList)] ELSE w1
      c == CloseSessionSummary(w2.audit, session.Token, t, FALSE)
  IN BulkLoopSkipsFailedEntry([w2 EXCEPT !.audit = c.audit], t, sessions, i + 1, fault, k)

\* mutant: the clinician list is evicted for every entry, whatever its roles
RECURSIVE BulkLoopEvictsAlways(_, _, _, _, _, _)
BulkLoopEvictsAlways(w, t, sessions, i, fault, k) ==
  IF i > Len(sessions) THEN [w |-> w, err |-> Nil, n |-> Len(sessions)]
  ELSE
  LET hit == (i = k)
      session == sessions[i]
  IN IF hit /\ fault = "DelSession" THEN RetErr(w, StoreError)
     ELSE
     LET w1 == [w EXCEPT !.redis = Del(w.redis, session.Token)]
     IN IF hit /\ fault = "DelCache" THEN RetErr(w1, StoreError)
        ELSE
        LET w2 == [w1 EXCEPT !.redis = Del(w1.redis, keyActiveClinicianList)]
            c == CloseSessionSummary(w2.audit, session.Token, t,
                                     hit /\ fault = "CloseSessionSummary")
        IN IF c.err # Nil THEN RetErr(w2, c.err)
           ELSE BulkLoopEvictsAlways([w2 EXCEPT !.audit = c.audit], t, sessions, i + 1, fault, k)

\* one pass of the loop body for entry i; the step named by fault fails at entry k
RECURSIVE BulkLoop(_, _, _, _, _, _)
BulkLoop(w, t, sessions, i, fault, k) ==
  IF i > Len(sessions) THEN [w |-> w, err |-> Nil, n |-> Len(sessions)]
  ELSE
  LET hit == (i = k)
      session == sessions[i]
  IN IF hit /\ fault = "DelSession" THEN RetErr(w, StoreError)
     ELSE
     LET w1 == [w EXCEPT !.redis = Del(w.redis, session.Token)]
         clinician == clinicianRoleID \in session.Roles
     IN IF clinician /\ hit /\ fault = "DelCache" THEN RetErr(w1, StoreError)
        ELSE
        LET w2 == IF clinician THEN [w1 EXCEPT !.redis = Del(w1.redis, keyActiveClinicianList)]
                  ELSE w1
            c == CloseSessionSummary(w2.audit, session.Token, t,
                                     hit /\ fault = "CloseSessionSummary")
        IN IF c.err # Nil THEN RetErr(w2, c.err)
           ELSE BulkLoop([w2 EXCEPT !.audit = c.audit], t, sessions, i + 1, fault, k)

\* mutant: the index key is left in place after the loop
DeleteUserSessionsKeepIndex(w, t, userSessions, fault, k) ==
  LET r == BulkLoop(w, t, userSessions.Sessions, 1, fault, k)
  IN IF r.err # Nil THEN r
     ELSE IF fault = "DelIndex" THEN RetErr(r.w, StoreError)
     ELSE [w |-> r.w, err |-> Nil, n |-> r.n]

DeleteUserSessions(w, t, userSessions, fault, k) ==
  LET r == BulkLoop(w, t, userSessions.Sessions, 1, fault, k)
  IN IF r.err # Nil THEN r
     ELSE IF fault = "DelIndex" THEN RetErr(r.w, StoreError)
     ELSE [w |-> [r.w EXCEPT !.redis = Del(r.w.redis, userSessions.UserIDHash)],
           err |-> Nil, n |-> r.n]

FindAndDeleteAllByToken(w, t, token, fault, k) ==
  LET g == GetSession(w.redis, token, fault = "GetSession")
  IN IF g.err # Nil THEN RetErr(w, g.err)
     ELSE IF g.s.UserID = 0 THEN RetErr(w, Nil)
     ELSE
     LET f == FindUserSessionsByAuthToken(w, token, fault)
     IN IF f.err # Nil THEN RetErr(w, f.err)
        ELSE IF Len(f.userSessions.Sessions) = 0 THEN RetErr(w, Nil)
        ELSE DeleteUserSessions(w, t, f.userSessions, fault, k)

\* mutant: redis.Nil is returned like any other error of the Get
DeleteAllByUserHashNilIsError(w, t, userHashToken, userID, fault, k) ==
  IF fault = "GetIndex" THEN RetErr(w, StoreError)
  ELSE IF userHashToken \notin DOMAIN w.redis THEN RetErr(w, RedisNil)
  ELSE DeleteUserSessions(w, t, UnmarshalUserSessions(w.redis[userHashToken]), fault, k)

DeleteAllByUserHash(w, t, userHashToken, userID, fault, k) ==
  IF fault = "GetIndex" THEN RetErr(w, StoreError)
  ELSE IF userHashToken \notin DOMAIN w.redis THEN RetErr(w, Nil)
  ELSE DeleteUserSessions(w, t, UnmarshalUserSessions(w.redis[userHashToken]), fault, k)

(**************************** inputs of the calls **************************)
\* the store step that fails in a call; a loop step fails at list entry k
CreateFaults == {"none", "GetUserForAuth", "updateUser", "getUserRoles", "Exists",
                 "SetSession", "GetIndex", "SetIndex", "CreateSessionSummary"}
RefreshFaults == {"none", "Get", "Set"}
DeleteFaults == {"none", "GetSession", "FindGetSession", "getUserCreatedByID", "GetIndex",
                 "SetIndex", "DelIndex", "DelSession", "CloseSessionSummary"}
BulkFaults == ({"none", "GetSession", "FindGetSession", "getUserCreatedByID", "GetIndex",
                "DelIndex"} \X {0})
              \cup ({"DelSession", "DelCache", "CloseSessionSummary"} \X (1..MaxLogins))

TokenOf(u, t, n) == createSessionToken(newSessionData([UserID |-> u, Status |-> 0, Created |-> 0],
                                                       getUserRoles(u, FALSE).roles, t), n)
BobToken == TokenOf(2, 0, 1)
AliceToken == TokenOf(1, 0, 1)
\* every token a login of alice can mint, bob's token, and one no login minted
AllTokens == {TokenOf(1, t, n) : t \in Times, n \in Nonces} \cup {BobToken, "jwt.none"}

\* the token lists handed to DeleteMultiple: live, deleted and unknown tokens, with
\* repeats; the failing step is in the k-th call of Delete
TokenLists == [1..MaxList -> {BobToken, AliceToken, "jwt.none"}]
MultipleFaults == {<<"none", 0>>} \cup ((DeleteFaults \ {"none"}) \X (1..MaxList))

(***************************** the Lambda **********************************)
\* request bodies: a JSON object, a JSON array, a JSON scalar, text that is not JSON
Bodies == {"{\"action\":\"open\"}", "[1,2]", "42", "{\"action\":"}

\* json.Unmarshal into interface{}: the dynamic type of the decoded value, or none
JSONType(jsonData) ==
  CASE jsonData = "{\"action\":\"open\"}" -> "map[string]interface{}"
    [] jsonData = "[1,2]" -> "[]interface{}"
    [] jsonData = "42" -> "float64"
    [] OTHER -> "syntax error"

validateJSON(jsonData) ==
  IF JSONType(jsonData) = "syntax error" THEN "invalid JSON format"
  ELSE IF JSONType(jsonData) \in {"map[string]interface{}", "[]interface{}"} THEN Nil
  ELSE "invalid JSON: must be an object or array"

StatusText(code) ==
  CASE code = 401 -> "Unauthorized"
    [] code = 500 -> "Internal Server Error"
    [] OTHER -> ""

\* apigw.ErrorResponse: the marshalled ErrorBody
ErrorResponse(code, msg) ==
  [StatusCode |-> code,
   Body |-> "{\"code\":" \o ToString(code) \o ",\"status\":\"" \o StatusText(code)
            \o "\",\"error_message\":\"" \o msg \o "\"}"]

\* the invocation ended in a runtime panic: the Handler returned no response
Panic == [StatusCode |-> 0, Body |-> "panic"]

\* what can go wrong in one invocation: secret.New fails in GetClient or in
\* secretcache.New, the secret cannot be read, its sessions_db entry is no number
\* or no string, the session store fails, the AWS config does not load, S3 refuses
HandlerFaults == {"none", "GetClient", "secretcache.New", "GetSecretString", "Atoi",
                  "assertion", "GetSession", "LoadDefaultConfig", "PutObject"}

\* the package-level variables after initialize, and its error; secret.New returns a
\* Cache around a nil inner cache with the error of secretcache.New, and NewClient
\* returns an empty Client with the error of Atoi
initialize(cache, client, fault) ==
  LET c1 == IF cache # "nil" THEN cache
            ELSE IF fault = "GetClient" THEN "nil"
            ELSE IF fault = "secretcache.New" THEN "empty"
            ELSE "ok"
  IN IF cache = "nil" /\ fault = "GetClient"
     THEN [secretCache |-> c1, client |-> client, err |-> "Unable to generate custom client"]
     ELSE IF cache = "nil" /\ fault = "secretcache.New"
     THEN [secretCache |-> c1, client |-> client, err |-> "secretcache.New failed"]
     ELSE IF client # "nil" THEN [secretCache |-> c1, client |-> client, err |-> Nil]
     ELSE IF c1 = "empty" THEN [secretCache |-> c1, client |-> client, err |-> "panic"]
     ELSE IF fault = "GetSecretString"
     THEN [secretCache |-> c1, client |-> client, err |-> "Unable to get secret"]
     ELSE IF fault = "assertion" THEN [secretCache |-> c1, client |-> client, err |-> "panic"]
     ELSE IF fault = "Atoi"
     THEN [secretCache |-> c1, client |-> "empty", err |-> "Failed to get session db id"]
     ELSE [secretCache |-> c1, client |-> "ok", err |-> Nil]

\* getSession of main.go: the status code and the error
getSession(rd, client, token, fault) ==
  IF client # "ok" THEN [statusCode |-> 0, err |-> "panic"]
  ELSE LET g == GetSession(rd, token, fault = "GetSession")
       IN IF g.err # Nil THEN [statusCode |-> 500, err |-> g.err]
          ELSE IF g.s.UserID = 0
          THEN [statusCode |-> 401, err |-> "invalid authentication token"]
          ELSE [statusCode |-> 0, err |-> Nil]

\* time.Now().Format("2006-01-02_15-04-05"): one name per second
fileName(t) == "actions/user_action_" \o ToString(t) \o ".json"

Out(cache, client, puts, resp) ==
  [secretCache |-> cache, sessionsRedisClient |-> client, putObjects |-> puts, response |-> resp]

Handler(rd, t, cache, client, puts, authorization, body, fault) ==
  IF authorization = ""
  THEN Out(cache, client, puts, ErrorResponse(401, "authentication token is missing"))
  ELSE
  LET i == initialize(cache, client, fault)
  IN IF i.err = "panic" THEN Out(i.secretCache, i.client, puts, Panic)
     ELSE IF i.err # Nil THEN Out(i.secretCache, i.client, puts, ErrorResponse(500, i.err))
     ELSE
     LET g == getSession(rd, i.client, authorization, fault)
     IN IF g.err = "panic" THEN Out(i.secretCache, i.client, puts, Panic)
        ELSE IF g.err # Nil
        THEN Out(i.secretCache, i.client, puts, ErrorResponse(g.statusCode, g.err))
        ELSE IF validateJSON(body) # Nil
        THEN Out(i.secretCache, i.client, puts, ErrorResponse(500, validateJSON(body)))
        ELSE IF fault = "LoadDefaultConfig"
        THEN Out(i.secretCache, i.client, puts, ErrorResponse(500, "unable to load AWS config"))
        ELSE
        LET put == [Key |-> fileName(t), Body |-> body, stored |-> fault # "PutObject"]
        IN IF fault = "PutObject"
           THEN Out(i.secretCache, i.client, Append(puts, put), ErrorResponse(500, StoreError))
           ELSE Out(i.secretCache, i.client, Append(puts, put),
                    [StatusCode |-> 200, Body |-> body])

\* the Authorization header values presented to the Lambda
Authorizations == {"", BobToken, "jwt.none"}

(******************************* the state *********************************)
World == [redis |-> redis, users |-> users, audit |-> audit]

\* the identity a login names, 0 when there is none
LoginUser(login) ==
  LET rows == {u \in UserIDs : Username(u) = login[1] /\ SystemCodeOf(u) = login[2]}
  IN IF rows = {} THEN 0 ELSE CHOOSE u \in rows : TRUE

\* the stores before anyone logged in: the clinician list is cached, bob is not yet locked
World0 ==
  [redis |-> [k \in {keyActiveClinicianList} |-> [kind |-> "cache", exp |-> 0]],
   users |-> [u \in UserIDs |-> [status |-> IF u = 2 THEN 0 ELSE InitStatus(u),
                                 failed_logins |-> 0, login_count |-> 0, last_login |-> 0]],
   audit |-> {}]

\* bob's login at time 0
World1 == Create(World0, 0, <<Username(2), SystemCodeOf(2)>>, GoodPassword, 1, "none").w

\* a caller that has not called yet
Idle ==
  [op |-> "idle", pc |-> "idle", login |-> <<>>, password |-> "", nonce |-> 0, token |-> "",
   user |-> [UserID |-> 0], session |-> ZeroSession, userSessions |-> EmptyUserSessions,
   seen |-> 0, wrote |-> "", order |-> 0, err |-> Nil]

Procs == 1..NumProcs

NoCalls == procs = [p \in Procs |-> Idle]

\* a fresh execution environment: nothing initialised, nothing uploaded, no response
ColdStart ==
  /\ secretCache = "nil"
  /\ sessionsRedisClient = "nil"
  /\ putObjects = <<>>
  /\ response = [StatusCode |-> 0, Body |-> ""]

Init ==
  /\ redis = World1.redis
  /\ users = [World1.users EXCEPT ![2].status = BitOr(@, InitStatus(2))]
  /\ audit = World1.audit
  /\ now = 0
  /\ last = [op |-> "init", err |-> Nil]
  /\ run = [u \in UserIDs |-> 0]
  /\ faults = 0
  /\ fails = [u \in UserIDs |-> 0]
  /\ ColdStart
  /\ NoCalls

Apply(w) == redis' = w.redis /\ users' = w.users /\ audit' = w.audit

\* a call may hit a failing store step while the behaviour has failures left
Inject(fault) ==
  /\ fault # "none" => faults < MaxFaults
  /\ faults' = IF fault = "none" THEN faults ELSE faults + 1

\* fails counts every login of an identity refused for its password;
\* run counts the consecutive wrong-password logins of an identity since its
\* failed-login counter was last 0; -1 when the calls since then were not all of that kind
RunAfter(u, password, r) ==
  IF r.err \in {UserNotFound, UserLockedError} THEN run[u]
  ELSE IF r.w.users[u].failed_logins = 0 THEN 0
  ELSE IF password # GoodPassword /\ r.err = PasswordMismatch /\ run[u] >= 0 THEN run[u] + 1
  ELSE 0 - 1

\* a fault the call never reaches is no input of its own
CreateWith(passwords) ==
  \E login \in Logins, password \in passwords, nonce \in Nonces, fault \in CreateFaults :
    LET r == Create(World, now, login, password, nonce, fault)
        u == LoginUser(login)
    IN /\ Inject(fault)
       /\ fault = "none" \/ r # Create(World, now, login, password, nonce, "none")
       /\ \A x \in UserIDs : r.w.users[x].login_count <= MaxLogins
       /\ Apply(r.w)
       /\ last' = [op |-> "Create", err |-> r.err]
       /\ run' = IF u = 0 THEN run ELSE [run EXCEPT ![u] = RunAfter(u, password, r)]
       /\ fails' = IF u # 0 /\ r.err = PasswordMismatch THEN [fails EXCEPT ![u] = @ + 1]
                   ELSE fails
       /\ UNCHANGED <<now, handlerVars, procs>>

\* a login with any password
CreateAct == CreateWith(Passwords)

\* a login that presents the identity's password
LoginAct == CreateWith({GoodPassword})

RefreshAct ==
  \E token \in AllTokens, fault \in RefreshFaults :
    LET r == RefreshToken(redis, now, token, fault)
    IN /\ Inject(fault)
       /\ fault = "none" \/ r # RefreshToken(redis, now, token, "none")
       /\ redis' = r.redis
       /\ last' = [op |-> "RefreshToken", err |-> r.err]
       /\ UNCHANGED <<users, audit, now, run, fails, handlerVars, procs>>

DeleteAct ==
  \E token \in AllTokens, fault \in DeleteFaults :
    LET r == Delete(World, now, token, fault)
    IN /\ Inject(fault)
       /\ fault = "none" \/ r # Delete(World, now, token, "none")
       /\ Apply(r.w)
       /\ last' = [op |-> "Delete", err |-> r.err]
       /\ UNCHANGED <<now, run, fails, handlerVars, procs>>

DeleteMultipleWith(faultsOf) ==
  \E tokens \in TokenLists, f \in faultsOf :
    LET r == DeleteMultiple(World, now, tokens, f[1], f[2])
    IN /\ Inject(f[1])
       /\ f[1] = "none" \/ r # DeleteMultiple(World, now, tokens, "none", 0)
       /\ Apply(r.w)
       /\ last' = [op |-> "DeleteMultiple", err |-> r.err]
       /\ UNCHANGED <<now, run, fails, handlerVars, procs>>

\* a batch in which any one store step may fail
DeleteMultipleAct == DeleteMultipleWith(MultipleFaults)

\* a batch over a store that answers every step
DeleteMultipleOk == DeleteMultipleWith({<<"none", 0>>})

FindAndDeleteAllAct ==
  \E token \in AllTokens, f \in BulkFaults :
    LET r == FindAndDeleteAllByToken(World, now, token, f[1], f[2])
    IN /\ Inject(f[1])
       /\ f[1] = "none" \/ r # FindAndDeleteAllByToken(World, now, token, "none", 0)
       /\ Apply(r.w)
       /\ last' = [op |-> "FindAndDeleteAllByToken", err |-> r.err]
       /\ UNCHANGED <<now, run, fails, handlerVars, procs>>

DeleteAllByUserHashAct ==
  \E u \in UserIDs, f \in BulkFaults :
    LET r == DeleteAllByUserHash(World, now, UserHash(u), u, f[1], f[2])
    IN /\ Inject(f[1])
       /\ f[1] = "none" \/ r # DeleteAllByUserHash(World, now, UserHash(u), u, "none", 0)
       /\ Apply(r.w)
       /\ last' = [op |-> "DeleteAllByUserHash", err |-> r.err]
       /\ UNCHANGED <<now, run, fails, handlerVars, procs>>

HandlerOf(authorization, body, fault) ==
  Handler(redis, now, secretCache, sessionsRedisClient, putObjects, authorization, body, fault)

HandlerAct ==
  \E authorization \in Authorizations, body \in Bodies, fault \in HandlerFaults :
    LET r == HandlerOf(authorization, body, fault)
    IN /\ Inject(fault)
       /\ fault = "none" \/ r # HandlerOf(authorization, body, "none")
       /\ Len(r.putObjects) <= MaxPuts
       /\ secretCache' = r.secretCache
       /\ sessionsRedisClient' = r.sessionsRedisClient
       /\ putObjects' = r.putObjects
       /\ response' = r.response
       /\ last' = [op |-> "Handler", err |-> Nil]
       /\ UNCHANGED <<redis, users, audit, now, run, fails, procs>>

\* the clock advances and the store drops the keys whose TTL has run out
Tick ==
  /\ now + TickSeconds <= MaxTicks * TickSeconds
  /\ now' = now + TickSeconds
  /\ redis' = Expire(redis, now + TickSeconds)
  /\ last' = [op |-> "Tick", err |-> Nil]
  /\ UNCHANGED <<users, audit, run, faults, fails, handlerVars, procs>>

Next ==
  \/ LoginAct
  \/ RefreshAct
  \/ DeleteAct
  \/ FindAndDeleteAllAct
  \/ DeleteAllByUserHashAct
  \/ Tick

\* the session stores under every operation; logins present the right password
Spec == Init /\ [][Next]_vars

NextLogin ==
  \/ CreateAct
  \/ Tick

\* credential checking and the lockout policy under logins with any password
SpecLogin == Init /\ [][NextLogin]_vars

\* the step injects no failure
Reliable == faults' = faults

NextSeq ==
  \/ LoginAct /\ Reliable
  \/ RefreshAct /\ Reliable
  \/ DeleteAct /\ Reliable
  \/ DeleteMultipleOk
  \/ FindAndDeleteAllAct /\ Reliable
  \/ DeleteAllByUserHashAct /\ Reliable
  \/ Tick

\* every operation, one call at a time, over stores that answer every step
SpecSeq == Init /\ [][NextSeq]_vars

\* the stores once alice too has logged in at time 0
World2 ==
  Create([redis |-> World1.redis,
          users |-> [World1.users EXCEPT ![2].status = BitOr(@, InitStatus(2))],
          audit |-> World1.audit],
         0, <<Username(1), SystemCodeOf(1)>>, GoodPassword, 1, "none").w

InitRevoke ==
  /\ redis = World2.redis
  /\ users = World2.users
  /\ audit = World2.audit
  /\ now = 0
  /\ last = [op |-> "init", err |-> Nil]
  /\ run = [u \in UserIDs |-> 0]
  /\ faults = 0
  /\ fails = [u \in UserIDs |-> 0]
  /\ ColdStart
  /\ NoCalls

\* outside the core: an administrator removes the users row of a session owner
RemoveUserRow ==
  \E u \in DOMAIN users \cap {1, 2} :
    /\ users' = [x \in DOMAIN users \ {u} |-> users[x]]
    /\ last' = [op |-> "RemoveUserRow", err |-> Nil]
    /\ UNCHANGED <<redis, audit, now, run, faults, fails, handlerVars, procs>>

NextRevoke ==
  \/ DeleteAct
  \/ DeleteMultipleAct
  \/ FindAndDeleteAllAct
  \/ DeleteAllByUserHashAct
  \/ RemoveUserRow
  \/ Tick

\* revocation of the sessions of two logged-in identities, with failing store steps
\* and users rows that may be gone
SpecRevoke == InitRevoke /\ [][NextRevoke]_vars

NextHandler ==
  \/ HandlerAct
  \/ Tick

\* invocations of the Lambda in one execution environment, bob's session in the store
SpecHandler == Init /\ [][NextHandler]_vars

(**************************** concurrent calls *****************************)
\* the random strings drawn by logins that run at the same time
ConcNonces == {NumNonces + 1, NumNonces + 2}

At(p, op, pc) == procs[p].op = op /\ procs[p].pc = pc

\* the call of p moves on to its next step
Goto(p, rec, pc) ==
  /\ procs' = [procs EXCEPT ![p] = [rec EXCEPT !.pc = pc]]
  /\ UNCHANGED last

\* the call of p returns
Return(p, rec, err) ==
  /\ procs' = [procs EXCEPT ![p] = [rec EXCEPT !.pc = "done", !.err = err]]
  /\ last' = [op |-> rec.op, err |-> err]

\* the number of writes and deletions of an index key by the calls so far
IndexWrites(h) == Cardinality({q \in Procs : procs[q].wrote = h})

Rest == UNCHANGED <<now, run, faults, fails, handlerVars>>

\* a login of alice begins
CallCreate ==
  \E p \in Procs, password \in Passwords, nonce \in ConcNonces :
    /\ procs[p].pc = "idle"
    /\ Goto(p, [Idle EXCEPT !.op = "Create", !.login = <<Username(1), SystemCodeOf(1)>>,
                            !.password = password, !.nonce = nonce], "GetUserForAuth")
    /\ UNCHANGED <<redis, users, audit>> /\ Rest

\* the users row is read; status and password are judged on that copy, and the
\* token and session data are built from it
CreateGetUserForAuth ==
  \E p \in Procs :
    LET me == procs[p]
        g == GetUserForAuth(users, me.login, FALSE)
        user == g.user
        c == CreateTokenAndSessionData(user, now, me.nonce, FALSE)
    IN /\ At(p, "Create", "GetUserForAuth")
       /\ IF g.err # Nil THEN Return(p, me, g.err)
          ELSE IF ValidateUserStatus(user) # Nil
          THEN Return(p, [me EXCEPT !.user = user], ValidateUserStatus(user))
          ELSE IF ~SecureCompare(Hash(me.password, user.Created), user.StoredPassword)
          THEN Goto(p, [me EXCEPT !.user = user], "updateUser(false)")
          ELSE Goto(p, [me EXCEPT !.user = user, !.token = c.token, !.session = c.session],
                    "Exists")
       /\ UNCHANGED <<redis, users, audit>> /\ Rest

CreateUpdateUserFailed ==
  \E p \in Procs :
    LET me == procs[p]
    IN /\ At(p, "Create", "updateUser(false)")
       /\ users' = updateUser(users, me.user.UserID, FALSE, now, FALSE).users
       /\ Return(p, me, PasswordMismatch)
       /\ UNCHANGED <<redis, audit>> /\ Rest

SaveExists ==
  \E p \in Procs :
    LET me == procs[p]
    IN /\ At(p, "Create", "Exists")
       /\ IF Exists(redis, me.token) = 1 THEN Return(p, me, NonUniqueToken)
          ELSE Goto(p, me, "SetSession")
       /\ UNCHANGED <<redis, users, audit>> /\ Rest

SaveSetSession ==
  \E p \in Procs :
    LET me == procs[p]
    IN /\ At(p, "Create", "SetSession")
       /\ redis' = SetKey(redis, me.token, MarshalSession(me.session), sessionTTL, now)
       /\ Goto(p, me, "GetIndex")
       /\ UNCHANGED <<users, audit>> /\ Rest

\* mutant: the Get of the index key always reports redis.Nil
readUserSessionsAsNil(rd, userHashToken) == [UserIDHash |-> userHashToken, Sessions |-> <<>>]

\* Save's read of the index entry into its local userSessions
readUserSessions(rd, userHashToken) ==
  IF userHashToken \notin DOMAIN rd THEN [UserIDHash |-> userHashToken, Sessions |-> <<>>]
  ELSE UnmarshalUserSessions(rd[userHashToken])

SaveGetIndex ==
  \E p \in Procs :
    LET me == procs[p]
        userHashToken == getUserHashToken(me.session)
    IN /\ At(p, "Create", "GetIndex")
       /\ Goto(p, [me EXCEPT !.userSessions = readUserSessions(redis, userHashToken),
                             !.seen = IndexWrites(userHashToken)], "SetIndex")
       /\ UNCHANGED <<redis, users, audit>> /\ Rest

\* the list read earlier, with the new element appended, replaces the entry
SaveSetIndex ==
  \E p \in Procs :
    LET me == procs[p]
        userHashToken == getUserHashToken(me.session)
        userSession == [Token |-> me.token, Roles |-> RolesList(me.session)]
        updated == [me.userSessions EXCEPT !.Sessions = Append(@, userSession)]
    IN /\ At(p, "Create", "SetIndex")
       /\ redis' = SetKey(redis, userHashToken, MarshalUserSessions(updated), sessionTTL, now)
       /\ Goto(p, [me EXCEPT !.wrote = userHashToken,
                             !.order = IndexWrites(userHashToken) + 1],
               "updateUser(true)")
       /\ UNCHANGED <<users, audit>> /\ Rest

CreateUpdateUser ==
  \E p \in Procs :
    LET me == procs[p]
    IN /\ At(p, "Create", "updateUser(true)")
       /\ users' = updateUser(users, me.user.UserID, TRUE, now, FALSE).users
       /\ Goto(p, me, "CreateSessionSummary")
       /\ UNCHANGED <<redis, audit>> /\ Rest

CreateCreateSessionSummary ==
  \E p \in Procs :
    LET me == procs[p]
    IN /\ At(p, "Create", "CreateSessionSummary")
       /\ audit' = CreateSessionSummary(audit, me.token, me.session, now, FALSE).audit
       /\ Return(p, me, Nil)
       /\ UNCHANGED <<redis, users>> /\ Rest

\* the tokens handed to a Delete that runs beside other calls
ConcTokens == {AliceToken}

CallDelete ==
  \E p \in Procs, token \in ConcTokens :
    /\ procs[p].pc = "idle"
    /\ Goto(p, [Idle EXCEPT !.op = "Delete", !.token = token], "GetSession")
    /\ UNCHANGED <<redis, users, audit>> /\ Rest

DeleteGetSession ==
  \E p \in Procs :
    LET me == procs[p]
        g == GetSession(redis, me.token, FALSE)
    IN /\ At(p, "Delete", "GetSession")
       /\ IF g.s.UserID = 0 THEN Return(p, me, Nil)
          ELSE Goto(p, [me EXCEPT !.session = g.s], "Find.GetSession")
       /\ UNCHANGED <<redis, users, audit>> /\ Rest

\* FindUserSessionsByAuthToken reads the session again
FindGetSession ==
  \E p \in Procs :
    LET me == procs[p]
        g == GetSession(redis, me.token, FALSE)
    IN /\ At(p, "Delete", "Find.GetSession")
       /\ IF g.s.UserID = 0 THEN Goto(p, [me EXCEPT !.userSessions = EmptyUserSessions], "Del")
          ELSE Goto(p, [me EXCEPT !.user = [UserID |-> g.s.UserID, Created |-> 0]],
                    "Find.getUserCreatedByID")
       /\ UNCHANGED <<redis, users, audit>> /\ Rest

FindGetUserCreatedByID ==
  \E p \in Procs :
    LET me == procs[p]
        c == getUserCreatedByID(users, me.user.UserID, FALSE)
    IN /\ At(p, "Delete", "Find.getUserCreatedByID")
       /\ IF c.err # Nil THEN Return(p, me, c.err)
          ELSE Goto(p, [me EXCEPT !.user.Created = c.created], "Find.GetIndex")
       /\ UNCHANGED <<redis, users, audit>> /\ Rest

FindGetIndex ==
  \E p \in Procs :
    LET me == procs[p]
        redisSession == [ZeroSession EXCEPT !.UserID = me.user.UserID]
        userHashToken == getUserHashToken(createSessionData(redisSession, me.user.Created))
        userSessions == IF userHashToken \notin DOMAIN redis THEN EmptyUserSessions
                        ELSE UnmarshalUserSessions(redis[userHashToken])
    IN /\ At(p, "Delete", "Find.GetIndex")
       /\ Goto(p, [me EXCEPT !.userSessions = userSessions, !.seen = IndexWrites(userHashToken)],
               IF Len(userSessions.Sessions) # 0 THEN "removeSessionFromUserSessions" ELSE "Del")
       /\ UNCHANGED <<redis, users, audit>> /\ Rest

\* the list read earlier, without the token, replaces the entry or the key is deleted
DeleteRemoveSession ==
  \E p \in Procs :
    LET me == procs[p]
        userHashToken == me.userSessions.UserIDHash
    IN /\ At(p, "Delete", "removeSessionFromUserSessions")
       /\ redis' = removeSessionFromUserSessions(redis, me.userSessions, me.token, now,
                                                 "none").redis
       /\ Goto(p, [me EXCEPT !.wrote = userHashToken,
                             !.order = IndexWrites(userHashToken) + 1], "Del")
       /\ UNCHANGED <<users, audit>> /\ Rest

DeleteDel ==
  \E p \in Procs :
    LET me == procs[p]
    IN /\ At(p, "Delete", "Del")
       /\ redis' = Del(redis, me.token)
       /\ Goto(p, me, "CloseSessionSummary")
       /\ UNCHANGED <<users, audit>> /\ Rest

DeleteCloseSessionSummary ==
  \E p \in Procs :
    LET me == procs[p]
    IN /\ At(p, "Delete", "CloseSessionSummary")
       /\ audit' = CloseSessionSummary(audit, me.session.Token, now, FALSE).audit
       /\ Return(p, me, Nil)
       /\ UNCHANGED <<redis, users>> /\ Rest

NextConc ==
  \/ CallCreate
  \/ CreateGetUserForAuth
  \/ CreateUpdateUserFailed
  \/ SaveExists
  \/ SaveSetSession
  \/ SaveGetIndex
  \/ SaveSetIndex
  \/ CreateUpdateUser
  \/ CreateCreateSessionSummary
  \/ CallDelete
  \/ DeleteGetSession
  \/ FindGetSession
  \/ FindGetUserCreatedByID
  \/ FindGetIndex
  \/ DeleteRemoveSession
  \/ DeleteDel
  \/ DeleteCloseSessionSummary

\* logins of alice and deletions of her session of time 0 that run at the same
\* time, one store command at a time, bob's session beside them
SpecConc == InitRevoke /\ [][NextConc]_vars

\* the stores after n further logins of alice with a wrong password
RECURSIVE AfterWrongPasswords(_, _)
AfterWrongPasswords(w, n) ==
  IF n = 0 THEN w
  ELSE Create(AfterWrongPasswords(w, n - 1), 0, <<Username(1), SystemCodeOf(1)>>,
              BadPassword, 1, "none").w

\* alice is one wrong password short of the lock
WorldLock == AfterWrongPasswords(World2, maxLoginAttempts - 1)

InitLock ==
  /\ redis = WorldLock.redis
  /\ users = WorldLock.users
  /\ audit = WorldLock.audit
  /\ now = 0
  /\ last = [op |-> "init", err |-> Nil]
  /\ run = [u \in UserIDs |-> 0]
  /\ faults = 0
  /\ fails = [u \in UserIDs |-> 0]
  /\ ColdStart
  /\ NoCalls

\* calls that run at the same time for an identity whose next failed login locks it
SpecLock == InitLock /\ [][NextConc]_vars

(***************************************************************************)
(*                               the claims                                *)
(***************************************************************************)
\* the tokens an index entry lists, in order; none when the key is absent
IndexTokens(rd, h) ==
  IF h \in DOMAIN rd /\ rd[h].kind = "index"
  THEN [i \in DOMAIN rd[h].Sessions |-> rd[h].Sessions[i].Token]
  ELSE <<>>
Count(seq, x) == Cardinality({i \in DOMAIN seq : seq[i] = x})
Range(seq) == {seq[i] : i \in DOMAIN seq}
\* every key but `key` is as it was
OnlyKeyChanged(rd1, rd2, key) ==
  /\ DOMAIN rd1 \ {key} = DOMAIN rd2 \ {key}
  /\ \A k \in DOMAIN rd1 \ {key} : rd1[k] = rd2[k]

Deleted(u) == BitSet(users[u].status, userDeleted)
Locked(u) == BitSet(users[u].status, userLocked) \/ BitSet(users[u].status, userLockedLogin)
LoginOf(u) == <<Username(u), SystemCodeOf(u)>>
\* the session keys of the store
LiveTokens == {k \in DOMAIN redis : redis[k].kind = "session"}

\* C1: a login of an identity that is neither deleted nor locked, with its password,
\* in which no step fails (no store failure, the minted token not yet a key),
\* returns a token, and GetSession of that token yields the identity's user_id
\* and exactly the role map loaded for it; whenever a login returns a token, the
\* session stored under it reads back so.
C1_CreateStoresSession ==
  \A u \in UserIDs, nonce \in Nonces, fault \in CreateFaults :
    LET r == Create(World, now, LoginOf(u), GoodPassword, nonce, fault)
        s == GetSession(r.w.redis, r.token, FALSE).s
    IN (~Deleted(u) /\ ~Locked(u)) =>
         /\ (fault = "none" /\ Exists(redis, TokenOf(u, now, nonce)) = 0) => r.err = Nil
         /\ r.err = Nil =>
              /\ r.token # ""
              /\ s.Token = r.token
              /\ s.UserID = u
              /\ s.Roles = getUserRoles(u, FALSE).roles

\* a login has just returned a token, and alice's session under it is in the store
C1_Witness ==
  /\ last.op = "Create" /\ last.err = Nil
  /\ \E k \in LiveTokens : redis[k].user_id = 1 /\ redis[k].created = now
                           /\ DOMAIN redis[k].roles = {"1", "4"}

\* C2: for an identity that starts with failed-login counter 0 and no lock bit, after N
\* consecutive wrong-password logins the locked-by-failed-login bit is clear while
\* N < 6 and set from the 6th on; once it is set every login, with the right password
\* too, fails with UserLockedError.
C2_LockedOnSixthFailure ==
  \A u \in UserIDs :
    (~BitSet(InitStatus(u), userDeleted) /\ ~BitSet(InitStatus(u), userLocked)
       /\ ~BitSet(InitStatus(u), userLockedLogin)) =>
      /\ run[u] >= 0 =>
           (BitSet(users[u].status, userLockedLogin) <=> run[u] >= maxLoginAttempts)
      /\ BitSet(users[u].status, userLockedLogin) =>
           \A password \in Passwords, nonce \in Nonces :
             Create(World, now, LoginOf(u), password, nonce, "none").err = UserLockedError

\* alice has failed six times in a row, is locked, and a login was just turned away
C2_Witness ==
  /\ run[1] = maxLoginAttempts
  /\ BitSet(users[1].status, userLockedLogin)
  /\ last.op = "Create" /\ last.err = UserLockedError
\* C3: after Delete(T) of a live session T returns nil, the key T is gone; if T was
\* the only token of its owner's index entry the index key is gone; otherwise the
\* entry lists exactly the tokens it listed before other than T, each once.
C3_DeleteRemovesTokenFromIndex ==
  \A token \in LiveTokens, fault \in DeleteFaults :
    LET r == Delete(World, now, token, fault)
        h == UserHash(redis[token].user_id)
        before == IndexTokens(redis, h)
        after == IndexTokens(r.w.redis, h)
    IN r.err = Nil =>
         /\ token \notin DOMAIN r.w.redis
         /\ IF before = <<token>> THEN h \notin DOMAIN r.w.redis
            ELSE /\ h \in DOMAIN redis <=> h \in DOMAIN r.w.redis
                 /\ Range(after) = Range(before) \ {token}
                 /\ \A x \in Range(after) : Count(after, x) = 1

\* C4: RefreshToken of a token whose session record exists changes nothing but that
\* record's created field and TTL: every other key of the store, and the record's
\* user_id, roles, timeout and other fields, are as before whether or not the write
\* succeeds; with no failing step it returns nil, created is the current time and
\* the key expires a full sessionTTL from now.
C4_RefreshChangesCreatedAndTTLOnly ==
  \A token \in LiveTokens, fault \in RefreshFaults :
    LET r == RefreshToken(redis, now, token, fault)
    IN /\ OnlyKeyChanged(redis, r.redis, token)
       /\ token \in DOMAIN r.redis
       /\ [r.redis[token] EXCEPT !.created = redis[token].created, !.exp = redis[token].exp]
            = redis[token]
       /\ fault = "none" =>
            /\ r.err = Nil
            /\ r.redis[token].created = now
            /\ r.redis[token].exp = now + sessionTTL

\* bob's session of time 0 was just refreshed at a later time, his index entry
\* still expiring at its first TTL
C4_Witness ==
  /\ last.op = "RefreshToken" /\ last.err = Nil
  /\ now > 0
  /\ BobToken \in DOMAIN redis /\ redis[BobToken].created = now
  /\ redis[BobToken].exp = now + sessionTTL
  /\ UserHash(2) \in DOMAIN redis /\ redis[UserHash(2)].exp = sessionTTL

\* C5: RefreshToken of a token that has no session record (never created, deleted,
\* or expired) returns the store's not-found error and writes nothing.
C5_RefreshOfMissingIsNotFound ==
  \A token \in AllTokens \ DOMAIN redis, fault \in RefreshFaults \ {"Get"} :
    RefreshToken(redis, now, token, fault) = [redis |-> redis, err |-> RedisNil]

\* a refresh was just answered not-found in a store from which bob's session was
\* deleted (its audit row closed) while its TTL had not run out
C5_Witness ==
  /\ last.op = "RefreshToken" /\ last.err = RedisNil
  /\ now < sessionTTL
  /\ BobToken \notin DOMAIN redis
  /\ \E row \in audit : row.token = BobToken /\ row.hard_logout

\* C6: DeleteAllByUserHash for a user hash with no index entry returns nil, deletes
\* nothing, and leaves the store (clinician cache key included), the users table
\* and the audit trail as they were.
C6_NoIndexEntryIsNoOp ==
  \A u \in UserIDs, f \in BulkFaults :
    (UserHash(u) \notin DOMAIN redis /\ f[1] # "GetIndex") =>
      DeleteAllByUserHash(World, now, UserHash(u), u, f[1], f[2]) = RetErr(World, Nil)

\* DeleteAllByUserHash just returned nil and no index entry is gone: both alice's
\* and bob's are there, with the cache key and the open audit rows
C6_Witness ==
  /\ last.op = "DeleteAllByUserHash" /\ last.err = Nil
  /\ UserHash(1) \in DOMAIN redis /\ UserHash(2) \in DOMAIN redis
  /\ UserHash(3) \notin DOMAIN redis
  /\ keyActiveClinicianList \in DOMAIN redis
  /\ \A row \in audit : ~row.hard_logout

\* the state after a bulk deletion of the index entry `h` listed `tokens`
BulkDone(w, h, tokens) ==
  /\ h \notin DOMAIN w.redis
  /\ \A x \in tokens : x \notin DOMAIN w.redis
  /\ \A row \in w.audit : row.token \in tokens => (row.hard_logout /\ row.ended # NullTime)

\* C7: when bulk deletion returns nil for an index entry, reached from
\* DeleteAllByUserHash or from FindAndDeleteAllByToken, no session record is left for
\* any token the entry listed, every audit row of a listed token is closed, and
\* the index key is gone.
C7_BulkDeletionClearsEntry ==
  \A f \in BulkFaults :
    /\ \A u \in UserIDs :
         LET h == UserHash(u)
             r == DeleteAllByUserHash(World, now, h, u, f[1], f[2])
         IN (h \in DOMAIN redis /\ r.err = Nil) => BulkDone(r.w, h, Range(IndexTokens(redis, h)))
    /\ \A token \in LiveTokens :
         LET h == UserHash(redis[token].user_id)
             r == FindAndDeleteAllByToken(World, now, token, f[1], f[2])
         IN (IndexTokens(redis, h) # <<>> /\ r.err = Nil) =>
              BulkDone(r.w, h, Range(IndexTokens(redis, h)))

\* a bulk deletion just returned nil; alice's two sessions and her index entry are
\* gone, her audit rows closed, and the clinician list evicted with them
C7_Witness ==
  /\ last.op \in {"DeleteAllByUserHash", "FindAndDeleteAllByToken"} /\ last.err = Nil
  /\ UserHash(1) \notin DOMAIN redis
  /\ keyActiveClinicianList \notin DOMAIN redis
  /\ \A k \in LiveTokens : redis[k].user_id # 1
  /\ Cardinality({row \in audit : row.user_id = 1 /\ row.hard_logout /\ row.ended = now}) = 2

C9_WrongPasswordCounted ==
  \A u \in UserIDs, nonce \in Nonces, fault \in CreateFaults :
    LET r == Create(World, now, LoginOf(u), BadPassword, nonce, fault)
    IN (~Deleted(u) /\ ~Locked(u)) =>
         /\ fault \notin {"GetUserForAuth", "updateUser"} => r.err = PasswordMismatch
         /\ r.err = PasswordMismatch =>
              /\ r.token = ""
              /\ r.w.redis = redis
              /\ r.w.audit = audit
              /\ r.w.users[u].failed_logins = users[u].failed_logins + 1
              /\ r.w.users[u].status \in {users[u].status, BitOr(users[u].status, userLockedLogin)}
              /\ r.w.users = [users EXCEPT ![u].failed_logins = r.w.users[u].failed_logins,
                                           ![u].status = r.w.users[u].status]

\* a login was just refused for its password and alice's counter stands at one,
\* with her earlier session untouched
C9_Witness ==
  /\ last.op = "Create" /\ last.err = PasswordMismatch
  /\ users[1].failed_logins = 1
  /\ users[1].login_count = 1

\* C10: a login for an identity whose deleted bit is set fails with UserNotFound, as
\* one for an absent username does, whatever its lock bits; for an identity that is
\* not deleted and has either lock bit set it fails with UserLockedError whatever
\* the password; both leave users, store and audit trail as they were.
C10_StatusRejectedFirst ==
  /\ \A password \in Passwords, nonce \in Nonces, fault \in CreateFaults \ {"GetUserForAuth"} :
       /\ \A login \in Logins :
            LoginUser(login) = 0 =>
              Create(World, now, login, password, nonce, fault) = Ret(World, "", UserNotFound)
       /\ \A u \in UserIDs :
            LET r == Create(World, now, LoginOf(u), password, nonce, fault)
            IN /\ Deleted(u) => r = Ret(World, "", UserNotFound)
               /\ (~Deleted(u) /\ Locked(u)) => r = Ret(World, "", UserLockedError)

\* a login of a deleted or unknown identity was just refused, after alice had
\* been locked by failed logins
C10_Witness ==
  /\ last.op = "Create" /\ last.err = UserNotFound
  /\ Deleted(3) /\ Locked(3)
  /\ ~Deleted(1) /\ Locked(1)

\* C11: Delete of a token that has no session record (unknown, already deleted, or
\* expired) returns nil and leaves the session store, every index entry, the users
\* table and the audit trail as they were; a second Delete of the same token
\* changes nothing the first left.
C11_DeleteOfMissingIsNoOp ==
  /\ \A token \in AllTokens \ DOMAIN redis, fault \in DeleteFaults \ {"GetSession"} :
       Delete(World, now, token, fault) = RetErr(World, Nil)
  /\ \A token \in AllTokens :
       LET first == Delete(World, now, token, "none")
       IN Delete(first.w, now, token, "none") = RetErr(first.w, first.err)

\* a Delete just returned nil at a time when bob's session had already been deleted
\* and its audit row closed earlier; nothing was closed by this call
C11_Witness ==
  /\ last.op = "Delete" /\ last.err = Nil /\ faults = 0
  /\ BobToken \notin DOMAIN redis
  /\ \E row \in audit : row.token = BobToken /\ row.hard_logout /\ row.ended < now
  /\ \A row \in audit : row.ended # now

\* the three cases in which FindAndDeleteAllByToken finds nothing to delete
NoSessionRecord(token) == token \notin DOMAIN redis
NoIdentity(token) ==
  /\ token \in LiveTokens
  /\ redis[token].user_id \notin DOMAIN users
NoIndexEntry(token) ==
  /\ token \in LiveTokens
  /\ redis[token].user_id \in DOMAIN users
  /\ UserHash(redis[token].user_id) \notin DOMAIN redis

\* C12: FindAndDeleteAllByToken returns nil and changes no store when the token has
\* no session record, when the owning identity has no row in the users table, and
\* when the owner's index entry does not exist.
C12_FindAndDeleteAllNoOpCases ==
  \A token \in AllTokens :
    (NoSessionRecord(token) \/ NoIdentity(token) \/ NoIndexEntry(token)) =>
      FindAndDeleteAllByToken(World, now, token, "none", 0) = RetErr(World, Nil)

\* the session record, the audit rows and the index listing of `token` are in w2 what
\* they were in w1
Untouched(w1, w2, token) ==
  /\ token \in DOMAIN w1.redis <=> token \in DOMAIN w2.redis
  /\ token \in DOMAIN w1.redis => w1.redis[token] = w2.redis[token]
  /\ {row \in w1.audit : row.token = token} = {row \in w2.audit : row.token = token}
  /\ \A u \in UserIDs : Count(IndexTokens(w1.redis, UserHash(u)), token)
                         = Count(IndexTokens(w2.redis, UserHash(u)), token)

\* C13: DeleteMultiple applies Delete to the tokens in list order and stops at the
\* first Delete that returns an error, returning that error: every token before the
\* failing one has been deleted, no token after it has been touched, and with no
\* error every token of the list has been deleted.
C13_DeleteMultipleStopsAtFirstError ==
  \A tokens \in TokenLists, f \in MultipleFaults :
    LET r == DeleteMultiple(World, now, tokens, f[1], f[2])
        n == Len(tokens)
        before(j) == DeleteMultiple(World, now, SubSeq(tokens, 1, j - 1), f[1], f[2])
        call(j) == Delete(before(j).w, now, tokens[j], IF j = f[2] THEN f[1] ELSE "none")
    IN IF r.err = Nil
       THEN \A i \in 1..n : tokens[i] \notin DOMAIN r.w.redis
       ELSE \E j \in 1..n :
              /\ before(j).err = Nil
              /\ r = call(j)
              /\ \A i \in 1..(j - 1) : tokens[i] \notin DOMAIN r.w.redis
              /\ \A i \in (j + 1)..n :
                   tokens[i] \notin {tokens[x] : x \in 1..j} => Untouched(World, r.w, tokens[i])

\* a batch just stopped on a store error: bob's session is deleted and its audit row
\* closed at this time, alice's session, audit row and index entry are as her login
\* left them
C13_Witness ==
  /\ last.op = "DeleteMultiple" /\ last.err = StoreError
  /\ BobToken \notin DOMAIN redis
  /\ \E row \in audit : row.token = BobToken /\ row.hard_logout /\ row.ended = now
  /\ Untouched(World2, World, AliceToken)
  /\ AliceToken \in DOMAIN redis

C15_IndexedTokensAreLive ==
  (faults = 0 /\ now < sessionTTL) =>
    \A u \in UserIDs :
      \A token \in Range(IndexTokens(redis, UserHash(u))) :
        token \in LiveTokens /\ redis[token].user_id = u

\* alice logged in twice and one of her two sessions was just deleted: her index
\* entry lists the other one alone
C15_Witness ==
  /\ last.op \in {"Delete", "DeleteMultiple"} /\ last.err = Nil
  /\ faults = 0 /\ now < sessionTTL
  /\ users[1].login_count = 2
  /\ Len(IndexTokens(redis, UserHash(1))) = 1
  /\ Cardinality({k \in LiveTokens : redis[k].user_id = 1}) = 1

\* no live session record of identity u is left in the store rd
NoLiveSessionOf(rd, u) ==
  \A k \in DOMAIN rd : rd[k].kind = "session" => rd[k].user_id # u

\* C16: bulk revocation revokes every active session of the identity. In a history
\* of calls that ran one at a time with no failing store step, the store expiring
\* keys at their TTL, every live session is listed in its owner's index entry (also
\* after RefreshToken extended it), and once DeleteAllByUserHash, or
\* FindAndDeleteAllByToken with a live token of the identity, returns nil, no live
\* session record with that user_id is left.
C16_BulkRevocationRevokesAll ==
  faults = 0 =>
    /\ \A k \in LiveTokens :
         k \in Range(IndexTokens(redis, UserHash(redis[k].user_id)))
    /\ \A u \in UserIDs :
         LET r == DeleteAllByUserHash(World, now, UserHash(u), u, "none", 0)
         IN r.err = Nil => NoLiveSessionOf(r.w.redis, u)
    /\ \A token \in LiveTokens :
         LET r == FindAndDeleteAllByToken(World, now, token, "none", 0)
         IN r.err = Nil => NoLiveSessionOf(r.w.redis, redis[token].user_id)

\* the status of every identity is in `us` what it is now, or that with the
\* locked-by-failed-login bit set in addition
StatusKept(us) ==
  /\ DOMAIN us = DOMAIN users
  /\ \A u \in DOMAIN users :
       us[u].status \in {users[u].status, BitOr(users[u].status, userLockedLogin)}

\* C17: the locked-by-failed-login bit is monotonic. No core operation (Create with
\* any password, RefreshToken, Delete, DeleteMultiple, bulk deletion, updateUser with
\* success or failure), whether or not a store step fails in it, clears the bit once
\* it is set, and none changes any other status bit.
C17_LoginLockIsMonotonic ==
  /\ \A login \in Logins, password \in Passwords, nonce \in Nonces, fault \in CreateFaults :
       StatusKept(Create(World, now, login, password, nonce, fault).w.users)
  /\ \A u \in UserIDs, success \in BOOLEAN :
       StatusKept(updateUser(users, u, success, now, FALSE).users)
  /\ \A token \in AllTokens, fault \in DeleteFaults :
       StatusKept(Delete(World, now, token, fault).w.users)
  /\ \A tokens \in TokenLists, f \in MultipleFaults :
       StatusKept(DeleteMultiple(World, now, tokens, f[1], f[2]).w.users)
  /\ \A token \in AllTokens, f \in BulkFaults :
       StatusKept(FindAndDeleteAllByToken(World, now, token, f[1], f[2]).w.users)
  /\ \A u \in UserIDs, f \in BulkFaults :
       StatusKept(DeleteAllByUserHash(World, now, UserHash(u), u, f[1], f[2]).w.users)
  /\ \A u \in UserIDs :
       /\ users[u].status \in {InitStatus(u), BitOr(InitStatus(u), userLockedLogin)}
       /\ fails[u] >= maxLoginAttempts /\ users[u].login_count = 0
            => BitSet(users[u].status, userLockedLogin)

\* alice logged in once, was later locked by six wrong passwords, and a login was
\* just turned away; her status is her first one with the lock bit added
C17_Witness ==
  /\ last.op = "Create" /\ last.err = UserLockedError
  /\ users[1].login_count >= 1
  /\ users[1].status = InitStatus(1) + userLockedLogin
  /\ now > users[1].last_login

\* C18: a fully successful Create sets the identity's failed-login counter to 0 and
\* adds one to its login count, so failures are counted consecutively: the counter
\* is the number of wrong passwords since the last success, and five failures, a
\* success and five more failures leave the account unlocked.
C18_SuccessResetsCounter ==
  \A u \in UserIDs :
    /\ \A nonce \in Nonces :
         LET r == Create(World, now, LoginOf(u), GoodPassword, nonce, "none")
         IN r.err = Nil =>
              r.w.users = [users EXCEPT ![u].failed_logins = 0,
                                        ![u].login_count = users[u].login_count + 1,
                                        ![u].last_login = now]
    /\ run[u] >= 0 => users[u].failed_logins = run[u]
    /\ (~BitSet(InitStatus(u), userLockedLogin) /\ users[u].failed_logins < maxLoginAttempts)
         => ~BitSet(users[u].status, userLockedLogin)

\* ten logins of alice were refused for the password, five before and five after her
\* one successful login, and she is not locked
C18_Witness ==
  /\ last.op = "Create" /\ last.err = PasswordMismatch
  /\ fails[1] = 10 /\ users[1].login_count = 1
  /\ users[1].failed_logins = 5 /\ run[1] = 5
  /\ ~BitSet(users[1].status, userLockedLogin)

\* the index key FindUserSessionsByAuthToken recomputes for a live token: from the
\* stored record's user_id and the created column of the users table
RecomputedKey(w, token) ==
  LET s == GetSession(w.redis, token, FALSE).s
  IN getUserHashToken(createSessionData(s, getUserCreatedByID(w.users, s.UserID, FALSE).created))

\* C19: the user hash is a function of (user_id, created timestamp of the identity).
\* The index key Save derives from the session data when Create runs is the key
\* FindUserSessionsByAuthToken recomputes later from the stored record's user_id and
\* users.created, so Delete and FindAndDeleteAllByToken address the entry Create
\* wrote.
C19_UserHashIsStable ==
  /\ \A k \in LiveTokens :
       RecomputedKey(World, k) = Hash(ToString(redis[k].user_id), redis[k].UserCreated)
  /\ \A u \in UserIDs, nonce \in Nonces :
       LET ok == Create(World, now, LoginOf(u), GoodPassword, nonce, "none")
           T == ok.token
           user == GetUserForAuth(users, LoginOf(u), FALSE).user
           savedKey == getUserHashToken(CreateTokenAndSessionData(user, now, nonce, FALSE).session)
           found == FindUserSessionsByAuthToken(ok.w, T, "none")
       IN ok.err = Nil =>
            /\ \A k \in DOMAIN ok.w.redis \ {T, savedKey} :
                 k \in DOMAIN redis /\ ok.w.redis[k] = redis[k]
            /\ T \in Range(IndexTokens(ok.w.redis, savedKey))
            /\ RecomputedKey(ok.w, T) = savedKey
            /\ found.err = Nil
            /\ found.userSessions = UnmarshalUserSessions(ok.w.redis[savedKey])
            /\ LET after == Delete(ok.w, now, T, "none").w.redis
               IN /\ savedKey \in DOMAIN after => after[savedKey] # ok.w.redis[savedKey]
                  /\ \A k \in DOMAIN ok.w.redis \ {T, savedKey} :
                       k \in DOMAIN after /\ after[k] = ok.w.redis[k]
            /\ savedKey \notin DOMAIN FindAndDeleteAllByToken(ok.w, now, T, "none", 0).w.redis

\* alice just logged in at a later time: the entry under the key recomputed for her
\* new session lists it
C19_Witness ==
  /\ last.op = "Create" /\ last.err = Nil /\ now > 0
  /\ \E k \in LiveTokens :
       /\ redis[k].user_id = 1 /\ redis[k].created = now
       /\ RecomputedKey(World, k) \in DOMAIN redis
       /\ k \in Range(IndexTokens(redis, RecomputedKey(World, k)))

\* the gates of an invocation, judged by its inputs and by what it left behind
Initialised(r) == r.secretCache = "ok" /\ r.sessionsRedisClient = "ok"
SessionOf(authorization) == GetSession(redis, authorization, FALSE).s
\* no PutObject request was issued by the invocation
NoUpload(r) == r.putObjects = putObjects

\* C20: the Handler uploads only after all gates pass, in this order: a non-empty
\* Authorization header (else 401 and nothing else done), successful initialisation
\* (else 500), a token that resolves to a session with non-zero user_id (else 401;
\* a store error gives 500), a body that parses as a JSON object or array (else
\* 500); no rejected invocation issues a PutObject, and a successful one answers
\* 200 with the request body echoed.
C20_UploadOnlyAfterAllGates ==
  \A authorization \in Authorizations, body \in Bodies, fault \in HandlerFaults :
    LET r == HandlerOf(authorization, body, fault)
        code == r.response.StatusCode
    IN IF authorization = ""
       THEN code = 401 /\ NoUpload(r)
            /\ r.secretCache = secretCache /\ r.sessionsRedisClient = sessionsRedisClient
       ELSE IF ~Initialised(r) THEN code = 500 /\ NoUpload(r)
       ELSE IF fault = "GetSession" THEN code = 500 /\ NoUpload(r)
       ELSE IF SessionOf(authorization).UserID = 0 THEN code = 401 /\ NoUpload(r)
       ELSE IF validateJSON(body) # Nil THEN code = 500 /\ NoUpload(r)
       ELSE IF fault \in {"LoadDefaultConfig", "PutObject"} THEN code = 500
       ELSE /\ r.response = [StatusCode |-> 200, Body |-> body]
            /\ r.putObjects = Append(putObjects, [Key |-> fileName(now), Body |-> body,
                                                   stored |-> TRUE])

\* the session record RefreshToken leaves behind for a token at this time
Refreshed(token) == RefreshToken(redis, now, token, "none").redis[token]

\* C21: a Handler invocation that presents a valid session token refreshes that
\* session, its created time and TTL reset as by RefreshToken, before the upload
\* proceeds: right after an invocation that answered 200, the presented session's
\* record is the refreshed one.
C21_HandlerRefreshesSession ==
  (last.op = "Handler" /\ response.StatusCode = 200) =>
    \A authorization \in Authorizations :
      (authorization # "" /\ SessionOf(authorization).UserID # 0) =>
        redis[authorization] = Refreshed(authorization)

\* the PutObject requests S3 accepted, in order
Uploads == SelectSeq(putObjects, LAMBDA put : put.stored)

\* C22: the S3 object key chosen by the Handler is unique per upload: any two
\* successful invocations write to distinct keys, so no upload overwrites an
\* earlier one.
C22_UploadKeysAreUnique ==
  \A i, j \in DOMAIN Uploads : i # j => Uploads[i].Key # Uploads[j].Key

\* the token names a live session: a Session record with a non-zero user_id
Live(rd, token) == GetSession(rd, token, FALSE).s.UserID # 0
\* every audit row of the token is closed at time t as a hard logout
ClosedAt(au, token, t) ==
  /\ \E r \in au : r.token = token
  /\ \A r \in au : r.token = token => r.ended = t /\ r.hard_logout
\* the audit rows of the other tokens
RowsOfOthers(au, token) == {r \in au : r.token # token}

\* C24: after a successful Delete(T) of a live session the audit row for T is closed
\* (ended set to the deletion time, hard_logout = true) and the audit rows of all
\* other tokens are unchanged; the close happens only after the Session key has been
\* deleted, so a failed close leaves the session deleted with an open audit row.
C24_DeleteClosesAuditRow ==
  \A token \in AllTokens, fault \in DeleteFaults :
    LET r == Delete(World, now, token, fault)
    IN Live(redis, token) =>
         /\ r.err = Nil =>
              /\ ClosedAt(r.w.audit, token, now)
              /\ RowsOfOthers(r.w.audit, token) = RowsOfOthers(audit, token)
              /\ token \notin DOMAIN r.w.redis
         /\ (fault = "CloseSessionSummary" /\ Delete(World, now, token, "none").err = Nil) =>
              /\ r.err = StoreError
              /\ token \notin DOMAIN r.w.redis
              /\ r.w.audit = audit
         /\ r.w.audit # audit => token \notin DOMAIN r.w.redis

\* a Delete returned nil, T's row is closed at this time and its session is gone,
\* while the row of another, live session is still open
C24_Witness ==
  /\ last = [op |-> "Delete", err |-> Nil]
  /\ \E r1, r2 \in audit :
       /\ r1.ended = now /\ r1.hard_logout /\ r1.token \notin DOMAIN redis
       /\ r2.ended = NullTime /\ ~r2.hard_logout /\ Live(redis, r2.token)

\* the Session records of one store that another store no longer holds
SessionsRemoved(rd1, rd2) ==
  {k \in DOMAIN rd1 : rd1[k].kind = "session" /\ k \notin DOMAIN rd2}

\* C25: on success, the count returned by bulk deletion (DeleteUserSessions) equals
\* the number of sessions it deleted: the number of Session records that existed
\* before the call and were removed by it.
C25_BulkCountIsSessionsDeleted ==
  \A u \in UserIDs :
    UserHash(u) \in DOMAIN redis =>
      LET r == DeleteUserSessions(World, now, UnmarshalUserSessions(redis[UserHash(u)]),
                                  "none", 0)
      IN r.err = Nil => r.n = Cardinality(SessionsRemoved(redis, r.w.redis))

\* the steps of the loop body of DeleteUserSessions that can fail
LoopFaults == {"DelSession", "DelCache", "CloseSessionSummary"}
\* the step is reached at entry k: the cache key is only deleted for a clinician
Reached(sessions, fault, k) ==
  k \in DOMAIN sessions /\ (fault = "DelCache" => clinicianRoleID \in sessions[k].Roles)
\* the tokens the list holds at the given positions
TokensAt(sessions, positions) == {sessions[i].Token : i \in positions \cap DOMAIN sessions}
AuditOf(au, tokens) == {row \in au : row.token \in tokens}

\* C26: if any single step of bulk deletion fails while processing the k-th index
\* entry, DeleteUserSessions stops and returns that error: the sessions of the
\* entries before k remain deleted and their audit rows closed, the sessions of the
\* entries after k are untouched, and the index key is not deleted.
C26_BulkFailureAtEntryK ==
  \A u \in UserIDs, fault \in LoopFaults, k \in 1..MaxLogins :
    LET h == UserHash(u)
        us == UnmarshalUserSessions(Get(redis, h))
        r == DeleteUserSessions(World, now, us, fault, k)
        before == TokensAt(us.Sessions, 1..(k - 1))
        after == TokensAt(us.Sessions, (k + 1)..Len(us.Sessions))
                   \ TokensAt(us.Sessions, 1..k)
    IN (h \in DOMAIN redis /\ Reached(us.Sessions, fault, k)) =>
         /\ r.err = StoreError
         /\ \A x \in before : x \notin DOMAIN r.w.redis
         /\ \A row \in AuditOf(r.w.audit, before) : row.hard_logout /\ row.ended = now
         /\ \A x \in after : Get(r.w.redis, x) = Get(redis, x)
         /\ AuditOf(r.w.audit, after) = AuditOf(audit, after)
         /\ Get(r.w.redis, h) = redis[h]

\* a bulk deletion just failed at alice's second entry: her first session is gone and
\* its audit row closed, her second session is live with an open row, and her index
\* entry still lists both
C26_Witness ==
  /\ last.op \in {"DeleteAllByUserHash", "FindAndDeleteAllByToken"} /\ last.err = StoreError
  /\ Len(IndexTokens(redis, UserHash(1))) = 2
  /\ LET first == IndexTokens(redis, UserHash(1))[1]
         second == IndexTokens(redis, UserHash(1))[2]
     IN /\ first # second
        /\ first \notin DOMAIN redis
        /\ \E row \in audit : row.token = first /\ row.hard_logout /\ row.ended = now
        /\ second \in DOMAIN redis
        /\ \E row \in audit : row.token = second /\ ~row.hard_logout /\ row.ended = NullTime

\* some session of the list carries the clinician role
ListsClinician(sessions) == \E i \in DOMAIN sessions : clinicianRoleID \in sessions[i].Roles
CacheKept(rd1, rd2) == Get(rd2, keyActiveClinicianList) = Get(rd1, keyActiveClinicianList)

\* C27: bulk deletion evicts the global cache key active_clinician_list if and only
\* if at least one session in the index list carries role-id 4; when no listed
\* session has role-id 4 the key is left unchanged, and the single-session Delete
\* never evicts it.
C27_ClinicianListEvictedIffRole4 ==
  /\ \A u \in UserIDs, f \in BulkFaults :
       LET us == UnmarshalUserSessions(Get(redis, UserHash(u)))
           r == DeleteUserSessions(World, now, us, f[1], f[2])
       IN /\ ~ListsClinician(us.Sessions) => CacheKept(redis, r.w.redis)
          /\ (ListsClinician(us.Sessions) /\ r.err = Nil) =>
               keyActiveClinicianList \notin DOMAIN r.w.redis
  /\ \A token \in AllTokens, fault \in DeleteFaults :
       CacheKept(redis, Delete(World, now, token, fault).w.redis)

\* a bulk deletion of alice's sessions just returned nil and evicted the clinician
\* list, after a Delete and a bulk deletion of the patient bob's session left it cached
C27_Witness ==
  /\ last.op \in {"DeleteAllByUserHash", "FindAndDeleteAllByToken"} /\ last.err = Nil
  /\ keyActiveClinicianList \notin DOMAIN redis
  /\ UserHash(1) \notin DOMAIN redis /\ UserHash(2) \notin DOMAIN redis
  /\ \E row \in audit : row.user_id = 1 /\ row.hard_logout /\ row.ended = now
  /\ \E row \in audit : row.user_id = 2 /\ row.hard_logout /\ row.ended < now

\* the session data a login of the identity builds at this time
SessionDataOf(u) ==
  newSessionData([UserID |-> u, Status |-> users[u].status, Created |-> CreatedOf(u)],
                 getUserRoles(u, FALSE).roles, now)
\* the elements of an index entry as stored, none when the key is absent
Listed(rd, h) == IF h \in DOMAIN rd /\ rd[h].kind = "index" THEN rd[h].Sessions ELSE <<>>

\* C28: a successful Save appends exactly one element (the token, the role-ids of
\* the session) to the end of the owner's index list, keeps every previously listed
\* element in its previous order, creates the entry with UserIDHash equal to its
\* key when it was absent, and resets the index entry's TTL to the full 960 seconds.
C28_SaveAppendsOneElement ==
  \A u \in UserIDs, nonce \in Nonces :
    LET session == SessionDataOf(u)
        token == createSessionToken(session, nonce)
        h == UserHash(u)
        s == Save(redis, now, token, session, "none")
    IN s.err = Nil =>
         /\ h \in DOMAIN s.redis /\ s.redis[h].kind = "index"
         /\ Listed(s.redis, h) =
              Append(Listed(redis, h),
                     [Token |-> token, roles_list |-> {row[1] : row \in RoleRows(u)}])
         /\ s.redis[h].UserIDHash = IF h \in DOMAIN redis THEN redis[h].UserIDHash ELSE h
         /\ s.redis[h].exp = now + sessionTTL
         /\ \A k \in DOMAIN s.redis \ {h, token} : k \in DOMAIN redis /\ s.redis[k] = redis[k]

\* a login of alice just succeeded: her index entry lists an earlier session first
\* and the new one last, and lives for the full TTL from now
C28_Witness ==
  /\ last = [op |-> "Create", err |-> Nil]
  /\ Len(Listed(redis, UserHash(1))) = 2
  /\ Listed(redis, UserHash(1))[1].Token \in DOMAIN redis
  /\ redis[Listed(redis, UserHash(1))[1].Token].created < now
  /\ Listed(redis, UserHash(1))[2].Token \in DOMAIN redis
  /\ redis[Listed(redis, UserHash(1))[2].Token].created = now
  /\ redis[UserHash(1)].exp = now + sessionTTL

\* C29: store errors are passed through by RefreshToken: if the write that rewrites
\* the Session record fails, RefreshToken returns that non-nil error, so a nil
\* return implies the record's created time and TTL were actually updated.
C29_RefreshPassesStoreErrors ==
  \A token \in LiveTokens, fault \in RefreshFaults :
    LET r == RefreshToken(redis, now, token, fault)
    IN /\ fault = "Set" => r.err # Nil
       /\ r.err = Nil => r.redis[token].created = now /\ r.redis[token].exp = now + sessionTTL

\* the index step Delete reaches for a token: the key is deleted when the token is
\* the last one listed, the entry rewritten otherwise
IndexStep(rd, h, token) ==
  IF Range(IndexTokens(rd, h)) = {token} THEN "DelIndex" ELSE "SetIndex"

\* C30: store errors are passed through by Delete: if removing the token from the
\* owner's index entry fails (index rewrite or index key deletion), Delete returns
\* that error, so a nil return from Delete of a live, indexed session implies the
\* token is no longer listed in the index.
C30_DeletePassesIndexErrors ==
  \A token \in LiveTokens, fault \in DeleteFaults :
    LET r == Delete(World, now, token, fault)
        h == UserHash(redis[token].user_id)
    IN token \in Range(IndexTokens(redis, h)) =>
         /\ fault = IndexStep(redis, h, token) => r.err # Nil
         /\ r.err = Nil => token \notin Range(IndexTokens(r.w.redis, h))

\* every call has returned
Quiescent == \A p \in Procs : procs[p].pc = "done"
Returned(p, op) == procs[p].op = op /\ procs[p].pc = "done" /\ procs[p].err = Nil
\* the index entry of alice, the owner of every session the concurrent calls touch
ListedNow(token) == token \in Range(IndexTokens(redis, UserHash(1)))
\* the call whose write of alice's index key was the n-th
WriterOf(n) == CHOOSE q \in Procs : procs[q].wrote = UserHash(1) /\ procs[q].order = n

\* whether the entry lists the token after the n-th write, if every write stores
\* the copy its call read earlier with the call's own token added or removed
RECURSIVE ListedAfter(_, _)
ListedAfter(n, token) ==
  IF n = 0 THEN token \in Range(IndexTokens(World2.redis, UserHash(1)))
  ELSE LET q == WriterOf(n)
       IN IF procs[q].token = token THEN procs[q].op = "Create"
          ELSE ListedAfter(procs[q].seen, token)

\* C23: the read-modify-write of an index entry is unguarded, so a lost update is
\* reachable.  Every write of the entry stores the copy its call read earlier, with
\* the call's token added or removed, whatever other calls wrote in between; once
\* every call has returned, the record of each token a Create returned exists and
\* the record of each token a Delete was given is gone, whether or not the entry
\* lists them.
C23_LostUpdateOnIndex ==
  /\ \A p \in Procs :
       ListedNow(procs[p].token) <=> ListedAfter(IndexWrites(UserHash(1)), procs[p].token)
  /\ Quiescent =>
       \A p \in Procs :
         /\ Returned(p, "Create") => procs[p].token \in DOMAIN redis
         /\ Returned(p, "Delete") => procs[p].token \notin DOMAIN redis

\* two logins of alice ran at the same time and both returned a token; both session
\* records exist, and her index entry lists only one of the two tokens
C23_Witness ==
  /\ \A p \in Procs : Returned(p, "Create")
  /\ procs[1].token # procs[2].token
  /\ \A p \in Procs : procs[p].token \in DOMAIN redis
  /\ Cardinality({p \in Procs : ListedNow(procs[p].token)}) = 1

\* a login and a Delete ran at the same time and both returned nil; the index entry
\* lists the deleted token, whose session record is gone
StaleListing ==
  /\ \E p \in Procs : Returned(p, "Create")
  /\ \E p \in Procs : /\ Returned(p, "Delete")
                      /\ procs[p].token \notin DOMAIN redis
                      /\ ListedNow(procs[p].token)

\* the calls of Save that were handed the token
SavesOf(token) == {p \in Procs : procs[p].op = "Create" /\ procs[p].token = token}

\* C31: token uniqueness holds under concurrency: for any interleaving of two
\* concurrent Save calls with the same token, at most one returns success and the
\* other returns NonUniqueToken, so a Session record is never overwritten by a
\* second issuance and a token is never listed twice in an index entry.
C31_TokenUniqueUnderConcurrency ==
  \A p \in Procs :
    procs[p].token # "" =>
      /\ Cardinality({q \in SavesOf(procs[p].token) : Returned(q, "Create")}) <= 1
      /\ Count(IndexTokens(redis, UserHash(1)), procs[p].token) <= 1

\* the locked-by-failed-login bit of the identity's users row
LoginLocked(u) == BitSet(users[u].status, userLockedLogin)
\* the call of p is about to write its Session record
WritesSession(p) == At(p, "Create", "SetSession")

\* C32: under any interleaving of concurrent Create calls for the same identity, no
\* Session record is written and no token is returned for an identity whose
\* locked-by-failed-login bit is already set at the moment of the write: no step
\* writes a Session record of alice, and no login of alice returns a token, while
\* her bit is set.
C32_NoSessionForLockedIdentity ==
  [][\A p \in Procs :
       /\ (WritesSession(p) /\ ~WritesSession(p)') => ~LoginLocked(1)
       /\ (procs[p].pc # "done" /\ Returned(p, "Create")') => ~LoginLocked(1)]_vars

\* C33: lazy initialisation in the Handler is safe across invocations: after any
\* sequence of initialize calls the package-level sessionsRedisClient is non-nil
\* only if it was constructed successfully; a failed initialize leaves it nil so
\* that the next invocation retries, and after one success later invocations reuse
\* the same client without re-creating it.
C33_LazyInitialisationIsSafe ==
  /\ sessionsRedisClient \in {"nil", "ok"}
  /\ \A fault \in HandlerFaults :
       LET i == initialize(secretCache, sessionsRedisClient, fault)
       IN /\ i.err # Nil => i.client = "nil"
          /\ sessionsRedisClient = "ok" => (i.client = "ok" /\ i.err = Nil)

====
